---- MODULE Spec2Model ----
(***************************************************************************)
(* Model of the schedule reconciliation and derived-availability engine of *)
(* family-swim-sf (src/pdf_parser.py).                                     *)
(*                                                                         *)
(* Python strings are modelled as sequences of one-character strings, so   *)
(* that upper(), strip(), substring search, split() and int() are computed *)
(* as the code computes them.                                              *)
(*                                                                         *)
(* Three specifications share the module:                                  *)
(*   Spec        extract_raw_schedule: seven weekdays, three runs of       *)
(*               extract_single_day each, then pick_best_of_three.         *)
(*   SpecPhantom remove_phantom_entries on a reconciled weekly schedule.   *)
(*   SpecDerive  the deterministic secret-swim calculators.                *)
(***************************************************************************)
EXTENDS Integers, Sequences, FiniteSets, TLC

VARIABLES
    pc,             \* position in extract_raw_schedule
    day,            \* 1-based index of the weekday being extracted
    extractions,    \* the attempts collected for the current weekday
    raw_schedule,   \* dict weekday -> list of records built so far
    result,         \* what extract_raw_schedule returned
    oracle_calls,   \* oracle calls made for the current weekday
    arb_response,   \* the answer to the current weekday's arbitration query
    failure,        \* what made extract_raw_schedule give up, if anything
    ph_pc,          \* position in remove_phantom_entries
    schedule_data,  \* the schedule handed to remove_phantom_entries
    suspicious,     \* list of (day, slot, adj_day) found suspicious
    sidx,           \* index of the next suspicious entry to verify
    verified,       \* cache: dict key -> is_real
    phantoms_to_remove, \* list of (day, slot) verified negative
    ph_result,      \* what remove_phantom_entries returned
    verify_log,     \* every verification query sent, with its answer
    d_pc,           \* position of the derivation run
    d_raw,          \* the raw schedule handed to the calculators
    d_balboa,       \* result of calculate_balboa_secret_swim
    d_garfield,     \* result of calculate_garfield_secret_swim
    d_class,        \* results of conflicts_with_small_pool, per record
    d_overlap,      \* results of times_overlap, per pair of records
    f_pc,           \* which helper function has been applied, if any
    f_in,           \* the arguments handed to the helper function
    f_out,          \* what the helper function returned or raised
    g_pc,           \* position in get_pool_schedule_from_pdf
    g_pool,         \* pool_name
    g_before,       \* the pool's entry in the cache file when the run began
    g_cache,        \* the pool's entry in the cache file
    g_raw,          \* raw_schedule: the weekdays extracted so far
    g_family,       \* family_swim_data
    g_secret,       \* secret_swim_data
    g_phantoms,     \* whether remove_phantom_entries ran, and what it removed
    g_return,       \* what get_pool_schedule_from_pdf returned
    g_failure,      \* the exception raised during the run, if any
    c_pc,           \* position in the cached front of get_pool_schedule_from_pdf
    c_force,        \* force_refresh
    c_documents,    \* documents: what the facility page lists in this run
    c_file,         \* the pool's entry in the cache file
    c_cache,        \* cache[pool_name] as load_cache gave it to this run
    c_return,       \* what this run of get_pool_schedule_from_pdf returned
    c_calls,        \* oracle calls of this run, per kind
    c_writes,       \* save_cache calls of this run
    c_prev          \* how the run before this one went, if there was one

xvars == <<pc, day, extractions, raw_schedule, result, oracle_calls,
           arb_response, failure>>
pvars == <<ph_pc, schedule_data, suspicious, sidx, verified,
           phantoms_to_remove, ph_result, verify_log>>
dvars == <<d_pc, d_raw, d_balboa, d_garfield, d_class, d_overlap>>
fvars == <<f_pc, f_in, f_out>>
gvars == <<g_pc, g_pool, g_before, g_cache, g_raw, g_family, g_secret,
           g_phantoms, g_return, g_failure>>
cvars == <<c_pc, c_force, c_documents, c_file, c_cache, c_return, c_calls,
           c_writes, c_prev>>
vars == <<xvars, pvars, dvars, fvars, gvars, cvars>>

----------------------------------------------------------------------------
(* Python string primitives on character sequences *)

Letters ==
    <<<<"a","A">>, <<"b","B">>, <<"c","C">>, <<"d","D">>, <<"e","E">>,
      <<"f","F">>, <<"g","G">>, <<"h","H">>, <<"i","I">>, <<"j","J">>,
      <<"k","K">>, <<"l","L">>, <<"m","M">>, <<"n","N">>, <<"o","O">>,
      <<"p","P">>, <<"q","Q">>, <<"r","R">>, <<"s","S">>, <<"t","T">>,
      <<"u","U">>, <<"v","V">>, <<"w","W">>, <<"x","X">>, <<"y","Y">>,
      <<"z","Z">>>>
ToUpper == [c \in {Letters[i][1] : i \in 1..26} |->
              Letters[CHOOSE i \in 1..26 : Letters[i][1] = c][2]]
ToLower == [c \in {Letters[i][2] : i \in 1..26} |->
              Letters[CHOOSE i \in 1..26 : Letters[i][2] = c][1]]
DigitChars == {"0","1","2","3","4","5","6","7","8","9"}

IsDigit(c) == c \in DigitChars
IsSpace(c) == c = " "

UpperChar(c) == IF c \in DOMAIN ToUpper THEN ToUpper[c] ELSE c
LowerChar(c) == IF c \in DOMAIN ToLower THEN ToLower[c] ELSE c

\* str.upper()
StrUpper(s) == [i \in 1..Len(s) |-> UpperChar(s[i])]
\* str.lower()
StrLower(s) == [i \in 1..Len(s) |-> LowerChar(s[i])]

\* str.strip()
StrStrip(s) ==
    LET keep == {i \in 1..Len(s) : ~IsSpace(s[i])}
    IN  IF keep = {} THEN <<>>
        ELSE LET lo == CHOOSE i \in keep : \A j \in keep : i <= j
                 hi == CHOOSE i \in keep : \A j \in keep : i >= j
             IN  SubSeq(s, lo, hi)

\* sub in s
StrContains(s, sub) ==
    \E i \in 1..(Len(s) - Len(sub) + 1) : SubSeq(s, i, i + Len(sub) - 1) = sub

\* s.startswith(p), s.endswith(p)
StrStartsWith(s, p) == Len(s) >= Len(p) /\ SubSeq(s, 1, Len(p)) = p
StrEndsWith(s, p) ==
    Len(s) >= Len(p) /\ SubSeq(s, Len(s) - Len(p) + 1, Len(s)) = p

\* s.replace(old, ''), old non-empty: leftmost non-overlapping occurrences
RECURSIVE StrRemove(_, _)
StrRemove(s, old) ==
    IF Len(s) < Len(old) THEN s
    ELSE IF SubSeq(s, 1, Len(old)) = old
         THEN StrRemove(SubSeq(s, Len(old) + 1, Len(s)), old)
         ELSE <<Head(s)>> \o StrRemove(Tail(s), old)

\* s.split(sep) for a one-character separator
RECURSIVE StrSplit(_, _)
StrSplit(s, sep) ==
    IF \A i \in 1..Len(s) : s[i] # sep THEN <<s>>
    ELSE LET k == CHOOSE i \in 1..Len(s) :
                     s[i] = sep /\ \A j \in 1..(i - 1) : s[j] # sep
         IN  <<SubSeq(s, 1, k - 1)>> \o StrSplit(SubSeq(s, k + 1, Len(s)), sep)

\* int() raising ValueError; every value int() returns here is >= 0
ValueError == -1
\* an index past the end of a string raising IndexError
IndexError == <<"<IndexError>">>

DigitValue(c) ==
    CASE c = "0" -> 0 [] c = "1" -> 1 [] c = "2" -> 2 [] c = "3" -> 3
      [] c = "4" -> 4 [] c = "5" -> 5 [] c = "6" -> 6 [] c = "7" -> 7
      [] c = "8" -> 8 [] c = "9" -> 9

RECURSIVE DigitsValue(_)
DigitsValue(s) ==
    IF s = <<>> THEN 0
    ELSE 10 * DigitsValue(SubSeq(s, 1, Len(s) - 1)) + DigitValue(s[Len(s)])

\* int(s): surrounding whitespace is ignored, anything but digits raises
\* (signs and digit separators do not occur in the strings modelled)
StrInt(s) ==
    LET t == StrStrip(s)
    IN  IF t # <<>> /\ \A i \in 1..Len(t) : IsDigit(t[i])
        THEN DigitsValue(t)
        ELSE ValueError

----------------------------------------------------------------------------
(* Time utilities *)

AM == <<"A","M">>
PM == <<"P","M">>
NOON == <<"N","O","O","N">>

\* time_to_minutes: minutes since midnight, ValueError when int() raises
time_to_minutes(time_str) ==
    LET t == StrStrip(StrUpper(time_str))
    IN  IF t = NOON THEN 12 * 60
        ELSE
        LET is_pm == StrEndsWith(t, PM)
            body == StrRemove(StrRemove(t, AM), PM)
            parts == StrSplit(body, ":")
            hours == StrInt(parts[1])
            minutes == IF Len(parts) > 1 THEN StrInt(parts[2]) ELSE 0
            h24 == IF is_pm /\ hours # 12 THEN hours + 12
                   ELSE IF ~is_pm /\ hours = 12 THEN 0
                   ELSE hours
        IN  IF hours = ValueError \/ minutes = ValueError THEN ValueError
            ELSE h24 * 60 + minutes

\* normalize_time: upper-case, strip, add a leading zero to H:MM
normalize_time(time_str) ==
    LET t == StrStrip(StrUpper(time_str))
    IN  IF Len(t) = 0 THEN IndexError
        ELSE IF ~IsDigit(t[1]) THEN t
        ELSE IF Len(t) = 1 THEN IndexError
        ELSE IF t[2] = ":" THEN <<"0">> \o t
        ELSE IF ~IsDigit(t[2]) THEN t
        ELSE IF Len(t) = 2 THEN IndexError
        ELSE t

\* get_time_slots: the set of normalized (start, end) pairs of an attempt
get_time_slots(activities) ==
    {<<normalize_time(activities[i].start), normalize_time(activities[i].end)>> :
        i \in 1..Len(activities)}

\* get_time_slots raises when normalize_time does
SlotsRaise(activities) ==
    \E i \in 1..Len(activities) :
        \/ normalize_time(activities[i].start) = IndexError
        \/ normalize_time(activities[i].end) = IndexError

----------------------------------------------------------------------------
(* Records and the answers the extraction oracle can give *)

Str_9_00AM == <<"9",":","0","0","A","M">>
Str_09_00am == <<"0","9",":","0","0","a","m">>
Str_10_00AM == <<"1","0",":","0","0","A","M">>
Str_11_00AM == <<"1","1",":","0","0","A","M">>
Str_LapSwim == <<"L","a","p"," ","S","w","i","m">>
Str_LAPSWIM == <<"L","A","P"," ","S","W","I","M">>
Str_SwimTeam == <<"S","w","i","m"," ","T","e","a","m">>
Str_Empty == <<>>
Str_SmallPool == <<"S","m","a","l","l"," ","P","o","o","l">>

Rec(s, e, a, p) == [start |-> s, end |-> e, activity |-> a, pool_area |-> p]

RecA == Rec(Str_9_00AM, Str_10_00AM, Str_LapSwim, Str_Empty)
\* the same slot as RecA in another format
RecA2 == Rec(Str_09_00am, Str_10_00AM, Str_LAPSWIM, Str_Empty)
RecB == Rec(Str_10_00AM, Str_11_00AM, Str_SwimTeam, Str_SmallPool)

\* the record lists an oracle answer can parse to
AttemptLists ==
    {<<>>, <<RecA>>, <<RecA2>>, <<RecB>>, <<RecA, RecB>>}

\* number of weekday columns of the image that hold any activity
MaxOpenDays == 2

Resp(k, v) == [kind |-> k, value |-> v]
\* an oracle call either raises, or answers with no text, with text that is
\* not JSON, or with a JSON list
Responses(d) ==
    {Resp("raise", <<>>), Resp("empty", <<>>), Resp("garbage", <<>>)}
    \cup {Resp("json", l) :
            l \in IF d <= MaxOpenDays THEN AttemptLists ELSE {<<>>}}

\* the answers to the top-down and bottom-up calls: also JSON that is not a
\* list of records, such as {"error": "no schedule found"}
ExtractResponses(d) == Responses(d) \cup {Resp("object", <<>>)}

Weekdays ==
    <<"Sunday", "Monday", "Tuesday", "Wednesday", "Thursday", "Friday",
      "Saturday">>

\* what a call came to: the exception it raised ("none" when it returned),
\* the value it returned, the oracle calls it made
Outcome(r, v, n) == [raised |-> r, value |-> v, calls |-> n]

----------------------------------------------------------------------------
(* Consensus extractor *)

\* extract_single_day: top-down call, bottom-up call, reconcile call when
\* the two slot sets differ.  Only json.JSONDecodeError is caught: iterating
\* a JSON object in get_time_slots raises AttributeError.
extract_single_day(td, bu, rec) ==
    IF td.kind = "raise" THEN Outcome("oracle", <<>>, 1)
    ELSE IF td.kind = "empty" THEN Outcome("none", <<>>, 1)
    ELSE IF td.kind = "garbage" THEN Outcome("none", <<>>, 1)
    ELSE IF bu.kind = "raise" THEN Outcome("oracle", <<>>, 2)
    ELSE IF bu.kind = "garbage" THEN Outcome("none", <<>>, 2)
    ELSE IF td.kind = "object" THEN Outcome("AttributeError", <<>>, 2)
    ELSE IF bu.kind = "object"
    THEN IF SlotsRaise(td.value) THEN Outcome("IndexError", <<>>, 2)
         ELSE Outcome("AttributeError", <<>>, 2)
    ELSE
    LET top_down_activities == td.value
        bottom_up_activities == IF bu.kind = "empty" THEN <<>> ELSE bu.value
    IN  IF SlotsRaise(top_down_activities) \/ SlotsRaise(bottom_up_activities)
        THEN Outcome("IndexError", <<>>, 2)
        ELSE IF get_time_slots(top_down_activities)
                    = get_time_slots(bottom_up_activities)
        THEN Outcome("none", top_down_activities, 2)
        ELSE IF rec.kind = "raise" THEN Outcome("oracle", <<>>, 3)
        ELSE IF rec.kind = "json" THEN Outcome("none", rec.value, 3)
        ELSE Outcome("none", top_down_activities, 3)

\* max(extractions, key=len) with ties going to the last attempt
MaxByLenLast(es) ==
    es[CHOOSE i \in 1..Len(es) :
          /\ \A j \in 1..Len(es) : Len(es[j]) <= Len(es[i])
          /\ \A j \in (i + 1)..Len(es) : Len(es[j]) < Len(es[i])]

\* max(extractions, key=len): the first attempt of greatest length
MaxByLen(es) ==
    es[CHOOSE i \in 1..Len(es) :
          /\ \A j \in 1..Len(es) : Len(es[j]) <= Len(es[i])
          /\ \A j \in 1..(i - 1) : Len(es[j]) < Len(es[i])]

\* pick_best_of_three returning the later attempt of a matching pair
pick_best_of_three_later(es, arb) ==
    LET slots == [i \in 1..3 |-> get_time_slots(es[i])]
    IN  IF slots[1] = slots[2] THEN Outcome("none", es[2], 0)
        ELSE IF slots[1] = slots[3] THEN Outcome("none", es[3], 0)
        ELSE IF slots[2] = slots[3] THEN Outcome("none", es[3], 0)
        ELSE IF arb.kind = "raise" THEN Outcome("oracle", <<>>, 1)
        ELSE IF arb.kind = "json" THEN Outcome("none", arb.value, 1)
        ELSE Outcome("none", MaxByLen(es), 1)

\* pick_best_of_three asking for arbitration but keeping the longest attempt
pick_best_of_three_keep(es, arb) ==
    LET slots == [i \in 1..3 |-> get_time_slots(es[i])]
    IN  IF slots[1] = slots[2] THEN Outcome("none", es[1], 0)
        ELSE IF slots[1] = slots[3] THEN Outcome("none", es[1], 0)
        ELSE IF slots[2] = slots[3] THEN Outcome("none", es[2], 0)
        ELSE IF arb.kind = "raise" THEN Outcome("oracle", <<>>, 1)
        ELSE Outcome("none", MaxByLen(es), 1)

\* pick_best_of_three taking only non-empty slot sets as agreeing
pick_best_of_three_nonempty(es, arb) ==
    LET slots == [i \in 1..3 |-> get_time_slots(es[i])]
    IN  IF slots[1] = slots[2] /\ slots[1] # {} THEN Outcome("none", es[1], 0)
        ELSE IF slots[1] = slots[3] /\ slots[1] # {}
        THEN Outcome("none", es[1], 0)
        ELSE IF slots[2] = slots[3] /\ slots[2] # {}
        THEN Outcome("none", es[2], 0)
        ELSE IF arb.kind = "raise" THEN Outcome("oracle", <<>>, 1)
        ELSE IF arb.kind = "json" THEN Outcome("none", arb.value, 1)
        ELSE Outcome("none", MaxByLen(es), 1)

\* pick_best_of_three with the arbitration query sent before the vote
pick_best_of_three_asks(es, arb) ==
    IF \E i \in 1..3 : SlotsRaise(es[i]) THEN Outcome("IndexError", <<>>, 0)
    ELSE
    LET slots == [i \in 1..3 |-> get_time_slots(es[i])]
    IN  IF arb.kind = "raise" THEN Outcome("oracle", <<>>, 1)
        ELSE IF slots[1] = slots[2] THEN Outcome("none", es[1], 1)
        ELSE IF slots[1] = slots[3] THEN Outcome("none", es[1], 1)
        ELSE IF slots[2] = slots[3] THEN Outcome("none", es[2], 1)
        ELSE IF arb.kind = "json" THEN Outcome("none", arb.value, 1)
        ELSE Outcome("none", MaxByLen(es), 1)

\* pick_best_of_three: majority vote on slot sets, else one arbitration
\* query, else the longest attempt
pick_best_of_three(es, arb) ==
    IF \E i \in 1..3 : SlotsRaise(es[i]) THEN Outcome("IndexError", <<>>, 0)
    ELSE
    LET slots == [i \in 1..3 |-> get_time_slots(es[i])]
    IN  IF slots[1] = slots[2] THEN Outcome("none", es[1], 0)
        ELSE IF slots[1] = slots[3] THEN Outcome("none", es[1], 0)
        ELSE IF slots[2] = slots[3] THEN Outcome("none", es[2], 0)
        ELSE IF arb.kind = "raise" THEN Outcome("oracle", <<>>, 1)
        ELSE IF arb.kind = "json" THEN Outcome("none", arb.value, 1)
        ELSE Outcome("none", MaxByLen(es), 1)

----------------------------------------------------------------------------
(* extract_raw_schedule as a state machine *)

Pending == [kind |-> "pending", value |-> <<>>]
None == [kind |-> "None", value |-> <<>>]
Returned(v) == [kind |-> "returned", value |-> v]

NoCalls == [extract |-> 0, arbitrate |-> 0]
NoResponse == Resp("none", <<>>)

PhantomIdle ==
    /\ ph_pc = "idle"
    /\ schedule_data = <<>>
    /\ suspicious = <<>>
    /\ sidx = 0
    /\ verified = <<>>
    /\ phantoms_to_remove = <<>>
    /\ ph_result = Pending
    /\ verify_log = <<>>

DeriveIdle ==
    /\ d_pc = "idle"
    /\ d_raw = <<>>
    /\ d_balboa = <<>>
    /\ d_garfield = <<>>
    /\ d_class = <<>>
    /\ d_overlap = <<>>

\* no helper function is being applied
FuncIdle ==
    /\ f_pc = "idle"
    /\ f_in = <<>>
    /\ f_out = <<>>

\* get_pool_schedule_from_pdf is not running
PoolIdle ==
    /\ g_pc = "idle"
    /\ g_pool = ""
    /\ g_before = <<>>
    /\ g_cache = <<>>
    /\ g_raw = <<>>
    /\ g_family = <<>>
    /\ g_secret = <<>>
    /\ g_phantoms = [done |-> FALSE, removed |-> {}]
    /\ g_return = Pending
    /\ g_failure = "none"

\* no run of get_pool_schedule_from_pdf is at its cache check
CacheIdle ==
    /\ c_pc = "idle"
    /\ c_force = FALSE
    /\ c_documents = <<>>
    /\ c_file = <<>>
    /\ c_cache = <<>>
    /\ c_return = Pending
    /\ c_calls = <<>>
    /\ c_writes = 0
    /\ c_prev = <<>>

ExtractIdle ==
    /\ pc = "idle"
    /\ day = 0
    /\ extractions = <<>>
    /\ raw_schedule = <<>>
    /\ result = Pending
    /\ oracle_calls = NoCalls
    /\ arb_response = NoResponse
    /\ failure = "none"

Init ==
    /\ pc = "convert"
    /\ PoolIdle
    /\ CacheIdle
    /\ day = 1
    /\ extractions = <<>>
    /\ raw_schedule = <<>>
    /\ result = Pending
    /\ oracle_calls = NoCalls
    /\ arb_response = NoResponse
    /\ failure = "none"
    /\ PhantomIdle
    /\ DeriveIdle
    /\ FuncIdle

\* convert_pdf_to_image returns a path: the client is built, the loop starts
ConvertOk ==
    /\ pc = "convert"
    /\ pc' = "loop"
    /\ UNCHANGED <<day, extractions, raw_schedule, result, oracle_calls,
                   arb_response, failure>>
    /\ UNCHANGED <<pvars, dvars, fvars, gvars, cvars>>

\* convert_pdf_to_image returns None, or reading the image raises
ConvertFails ==
    /\ pc = "convert"
    /\ pc' = "done"
    /\ result' = None
    /\ failure' = "convert"
    /\ UNCHANGED <<day, extractions, raw_schedule, oracle_calls, arb_response>>
    /\ UNCHANGED <<pvars, dvars, fvars, gvars, cvars>>

\* head of the loop over weekdays: a fresh list of extractions
StartDay ==
    /\ pc = "loop"
    /\ day <= Len(Weekdays)
    /\ pc' = "runs"
    /\ extractions' = <<>>
    /\ oracle_calls' = NoCalls
    /\ arb_response' = NoResponse
    /\ UNCHANGED <<day, raw_schedule, result, failure>>
    /\ UNCHANGED <<pvars, dvars, fvars, gvars, cvars>>

\* what one run of extract_single_day can come to on each weekday, over
\* all the answers the oracle can give to its calls
RunOutcomes ==
    [d \in 1..Len(Weekdays) |->
        {extract_single_day(td, bu, rec) :
            td \in ExtractResponses(d), bu \in ExtractResponses(d),
            rec \in Responses(d)}]

\* one of the three runs of extract_single_day; an exception it does not
\* catch ends extract_raw_schedule in its except clause
ExtractSingleDay ==
    /\ pc = "runs"
    /\ Len(extractions) < 3
    /\ \E r \in RunOutcomes[day] :
         LET calls == r.calls
         IN  /\ oracle_calls' =
                    [oracle_calls EXCEPT !.extract = @ + calls]
             /\ IF r.raised # "none"
                THEN /\ pc' = "done"
                     /\ result' = None
                     /\ failure' = r.raised
                     /\ UNCHANGED extractions
                ELSE /\ extractions' = Append(extractions, r.value)
                     /\ UNCHANGED <<pc, result, failure>>
    /\ UNCHANGED <<day, raw_schedule, arb_response>>
    /\ UNCHANGED <<pvars, dvars, fvars, gvars, cvars>>

\* what pick_best_of_three comes to on every three attempts and every
\* answer to its arbitration query
PickOutcomes ==
    [p \in {<<es, arb>> : es \in [1..3 -> AttemptLists],
                          arb \in Responses(1)} |->
        pick_best_of_three(p[1], p[2])]

\* pick_best_of_three on the three attempts, stored under the weekday
PickBestOfThree ==
    /\ pc = "runs"
    /\ Len(extractions) = 3
    /\ \E arb \in Responses(day) :
         LET r == PickOutcomes[<<extractions, arb>>]
         IN  /\ oracle_calls' =
                    [oracle_calls EXCEPT !.arbitrate = @ + r.calls]
             /\ arb_response' = IF r.calls = 0 THEN NoResponse ELSE arb
             /\ IF r.raised # "none"
                THEN /\ pc' = "done"
                     /\ result' = None
                     /\ failure' = r.raised
                     /\ UNCHANGED <<day, raw_schedule>>
                ELSE /\ raw_schedule' = raw_schedule @@ (Weekdays[day] :> r.value)
                     /\ day' = day + 1
                     /\ pc' = "loop"
                     /\ UNCHANGED <<result, failure>>
    /\ UNCHANGED extractions
    /\ UNCHANGED <<pvars, dvars, fvars, gvars, cvars>>

\* the loop is over: return raw_schedule
ReturnSchedule ==
    /\ pc = "loop"
    /\ day > Len(Weekdays)
    /\ pc' = "done"
    /\ result' = Returned(raw_schedule)
    /\ UNCHANGED <<day, extractions, raw_schedule, oracle_calls,
                   arb_response, failure>>
    /\ UNCHANGED <<pvars, dvars, fvars, gvars, cvars>>

Next ==
    \/ ConvertOk
    \/ ConvertFails
    \/ StartDay
    \/ ExtractSingleDay
    \/ PickBestOfThree
    \/ ReturnSchedule

Spec == Init /\ [][Next]_vars

----------------------------------------------------------------------------
(* Phantom detector: find_suspicious_duplicates, verify_slot_exists,
   remove_phantom_entries (raw format) *)

WEEKDAY_ORDER ==
    <<"Sunday", "Monday", "Tuesday", "Wednesday", "Thursday", "Friday",
      "Saturday">>

DayIndex(d) == CHOOSE i \in 1..Len(WEEKDAY_ORDER) : WEEKDAY_ORDER[i] = d

\* get_adjacent_days with Saturday and Sunday taken as neighbours
get_adjacent_days_wrap(d) ==
    LET idx == DayIndex(d)
        n == Len(WEEKDAY_ORDER)
    IN  <<WEEKDAY_ORDER[((idx + n - 2) % n) + 1],
          WEEKDAY_ORDER[(idx % n) + 1]>>

\* get_adjacent_days: the day before and the day after, no wrap-around
get_adjacent_days(d) ==
    LET idx == DayIndex(d)
    IN  (IF idx > 1 THEN <<WEEKDAY_ORDER[idx - 1]>> ELSE <<>>)
        \o (IF idx < Len(WEEKDAY_ORDER) THEN <<WEEKDAY_ORDER[idx + 1]>>
            ELSE <<>>)

\* the case-insensitive key of a raw-format slot
UpperKey(slot) ==
    <<StrUpper(slot.start), StrUpper(slot.end), StrUpper(slot.activity),
      StrUpper(slot.pool_area)>>

Suspect(d, slot, adj) == [day |-> d, slot |-> slot, adj_day |-> adj]

\* inner loops of find_suspicious_duplicates: one entry per adjacent day
\* that holds a slot with the same key
RECURSIVE SuspiciousForAdj(_, _, _, _)
SuspiciousForAdj(sd, d, slot, adj) ==
    IF adj = <<>> THEN <<>>
    ELSE (IF \E k \in 1..Len(sd[Head(adj)]) :
                 UpperKey(sd[Head(adj)][k]) = UpperKey(slot)
          THEN <<Suspect(d, slot, Head(adj))>>
          ELSE <<>>)
         \o SuspiciousForAdj(sd, d, slot, Tail(adj))

RECURSIVE SuspiciousForSlots(_, _, _)
SuspiciousForSlots(sd, d, slots) ==
    IF slots = <<>> THEN <<>>
    ELSE SuspiciousForAdj(sd, d, Head(slots), get_adjacent_days(d))
         \o SuspiciousForSlots(sd, d, Tail(slots))

RECURSIVE SuspiciousForDays(_, _)
SuspiciousForDays(sd, days) ==
    IF days = <<>> THEN <<>>
    ELSE SuspiciousForSlots(sd, Head(days), sd[Head(days)])
         \o SuspiciousForDays(sd, Tail(days))

\* find_suspicious_duplicates(schedule_data, use_raw_format=True); the dict
\* is iterated in the order extract_raw_schedule filled it
find_suspicious_duplicates(sd) == SuspiciousForDays(sd, Weekdays)

Txt_YES == <<"Y","E","S">>
Txt_NO == <<"N","O">>
Txt_BoldYES == <<"*","*","Y","E","S">>
Txt_BoldNO == <<"*","*","N","O">>
Txt_WordYES == <<" ","Y","E","S"," ">>

\* the free-text answers the verification oracle gives here
Txt_AnswerYes == <<"Y","e","s"," ","-"," ","s","e","e","n">>
Txt_AnswerNo == <<"N","O"," ","-"," ","n","o","t"," ","t","h","e","r","e">>
Txt_AnswerUnclear == <<"U","n","c","l","e","a","r">>
VerifyAnswers == {Txt_AnswerYes, Txt_AnswerNo, Txt_AnswerUnclear}

\* verify_slot_exists with the tests for NO made before the tests for YES
verify_slot_exists_no_first(response) ==
    LET response_upper == StrUpper(StrStrip(response))
    IN  IF \/ StrContains(response_upper, Txt_BoldNO)
           \/ StrStartsWith(response_upper, Txt_NO)
        THEN FALSE
        ELSE \/ StrContains(response_upper, Txt_BoldYES)
             \/ StrStartsWith(response_upper, Txt_YES)
             \/ StrContains(response_upper, Txt_WordYES)

\* verify_slot_exists: the boolean read out of the oracle's answer
verify_slot_exists(response) ==
    LET response_upper == StrUpper(StrStrip(response))
    IN  IF \/ StrContains(response_upper, Txt_BoldYES)
           \/ StrStartsWith(response_upper, Txt_YES)
        THEN TRUE
        ELSE IF \/ StrContains(response_upper, Txt_BoldNO)
                \/ StrStartsWith(response_upper, Txt_NO)
        THEN FALSE
        ELSE \/ StrContains(response_upper, Txt_WordYES)
             \/ StrStartsWith(response_upper, Txt_YES)

\* the key of the verified cache: the fields as written, case included
CacheKey(d, slot) ==
    <<d, slot.start, slot.end, slot.activity, slot.pool_area>>

Phantom(d, slot) == [day |-> d, slot |-> slot]

\* a verification query sent for a slot of a day, and what came back
Query(d, slot, a) == [day |-> d, slot |-> slot, answer |-> a]

\* is_phantom without the test on the key
is_phantom_whole_day(d, slot, phantoms) ==
    \E k \in 1..Len(phantoms) : phantoms[k].day = d

\* is_phantom without the test on the day
is_phantom_any_day(d, slot, phantoms) ==
    \E k \in 1..Len(phantoms) :
        /\ StrUpper(phantoms[k].slot.start) = StrUpper(slot.start)
        /\ StrUpper(phantoms[k].slot.end) = StrUpper(slot.end)
        /\ StrUpper(phantoms[k].slot.activity) = StrUpper(slot.activity)
        /\ StrUpper(phantoms[k].slot.pool_area) = StrUpper(slot.pool_area)

\* is_phantom: some phantom of the same day has the same case-insensitive key
is_phantom(d, slot, phantoms) ==
    \E k \in 1..Len(phantoms) :
        /\ phantoms[k].day = d
        /\ StrUpper(phantoms[k].slot.start) = StrUpper(slot.start)
        /\ StrUpper(phantoms[k].slot.end) = StrUpper(slot.end)
        /\ StrUpper(phantoms[k].slot.activity) = StrUpper(slot.activity)
        /\ StrUpper(phantoms[k].slot.pool_area) = StrUpper(slot.pool_area)

\* cleaned_slots of one day: the slots that are no phantom, in order
RECURSIVE cleaned_slots(_, _, _)
cleaned_slots(d, slots, phantoms) ==
    IF slots = <<>> THEN <<>>
    ELSE (IF is_phantom(d, Head(slots), phantoms) THEN <<>>
          ELSE <<Head(slots)>>)
         \o cleaned_slots(d, Tail(slots), phantoms)

\* a cleaning pass that takes nothing out
cleaned_data_keep(sd, phantoms) == sd
\* cleaned_data: every day of schedule_data with its phantoms taken out
cleaned_data(sd, phantoms) ==
    [d \in DOMAIN sd |-> cleaned_slots(d, sd[d], phantoms)]

\* the same record as RecA in capitals
RecAu == Rec(Str_9_00AM, Str_10_00AM, Str_LAPSWIM, Str_Empty)

\* the lists a weekday of the reconciled schedule can hold
DayLists ==
    {<<>>, <<RecAu>>, <<RecB, RecA>>, <<RecA, RecAu>>}

\* number of consecutive weekdays (Saturday followed by Sunday) that hold
\* any record
MaxSpan == 3

InSpan(first, i) == ((i - first) % Len(Weekdays)) < MaxSpan

\* the reconciled weekly schedules handed to remove_phantom_entries
PhantomSchedules ==
    UNION {
        {[d \in {Weekdays[i] : i \in 1..Len(Weekdays)} |->
            IF InSpan(first, DayIndex(d))
            THEN busy[((DayIndex(d) - first) % Len(Weekdays)) + 1]
            ELSE <<>>] :
         busy \in [1..MaxSpan -> DayLists]} :
        first \in 1..Len(Weekdays)}

Raised == [kind |-> "raised", value |-> <<>>]

InitPhantom ==
    /\ ph_pc = "start"
    /\ PoolIdle
    /\ CacheIdle
    /\ schedule_data \in PhantomSchedules
    /\ suspicious = <<>>
    /\ sidx = 0
    /\ verified = <<>>
    /\ phantoms_to_remove = <<>>
    /\ ph_result = Pending
    /\ verify_log = <<>>
    /\ ExtractIdle
    /\ DeriveIdle
    /\ FuncIdle

\* find_suspicious_duplicates, and the early return when nothing is found
FindSuspicious ==
    /\ ph_pc = "start"
    /\ suspicious' = find_suspicious_duplicates(schedule_data)
    /\ IF suspicious' = <<>>
       THEN /\ ph_pc' = "done"
            /\ ph_result' = Returned(schedule_data)
            /\ UNCHANGED sidx
       ELSE /\ ph_pc' = "verify"
            /\ sidx' = 1
            /\ UNCHANGED ph_result
    /\ UNCHANGED <<schedule_data, verified, phantoms_to_remove, verify_log>>
    /\ UNCHANGED <<xvars, dvars, fvars, gvars, cvars>>

\* one iteration of the loop over suspicious: the cached answer, or a
\* verification query whose answer is cached
VerifyNext ==
    /\ ph_pc = "verify"
    /\ sidx <= Len(suspicious)
    /\ LET d == suspicious[sidx].day
           slot == suspicious[sidx].slot
           slot_key == CacheKey(d, slot)
       IN  IF slot_key \in DOMAIN verified
           THEN /\ phantoms_to_remove' =
                      IF verified[slot_key] THEN phantoms_to_remove
                      ELSE Append(phantoms_to_remove, Phantom(d, slot))
                /\ sidx' = sidx + 1
                /\ UNCHANGED <<ph_pc, ph_result, verified, verify_log>>
           ELSE \/ \E answer \in VerifyAnswers :
                     LET is_real == verify_slot_exists(answer)
                     IN  /\ verified' = verified @@ (slot_key :> is_real)
                         /\ verify_log' = Append(verify_log,
                                Query(d, slot, IF is_real THEN "YES" ELSE "NO"))
                         /\ phantoms_to_remove' =
                               IF is_real THEN phantoms_to_remove
                               ELSE Append(phantoms_to_remove, Phantom(d, slot))
                         /\ sidx' = sidx + 1
                         /\ UNCHANGED <<ph_pc, ph_result>>
                \/ \* the oracle call raises
                   /\ ph_pc' = "done"
                   /\ ph_result' = Raised
                   /\ verify_log' = Append(verify_log, Query(d, slot, "raised"))
                   /\ UNCHANGED <<sidx, verified, phantoms_to_remove>>
    /\ UNCHANGED <<schedule_data, suspicious>>
    /\ UNCHANGED <<xvars, dvars, fvars, gvars, cvars>>

\* after the loop: the schedule itself when nothing is a phantom, else the
\* cleaned copy
RemovePhantoms ==
    /\ ph_pc = "verify"
    /\ sidx > Len(suspicious)
    /\ ph_pc' = "done"
    /\ ph_result' =
          IF phantoms_to_remove = <<>> THEN Returned(schedule_data)
          ELSE Returned(cleaned_data(schedule_data, phantoms_to_remove))
    /\ UNCHANGED <<schedule_data, suspicious, sidx, verified,
                   phantoms_to_remove, verify_log>>
    /\ UNCHANGED <<xvars, dvars, fvars, gvars, cvars>>

NextPhantom ==
    \/ FindSuspicious
    \/ VerifyNext
    \/ RemovePhantoms

SpecPhantom == InitPhantom /\ [][NextPhantom]_vars

----------------------------------------------------------------------------
(* The deterministic secret swim calculators *)

Str_small_pool == <<"s","m","a","l","l"," ","p","o","o","l">>
Str_main_pool == <<"m","a","i","n"," ","p","o","o","l">>
Str_lap_swim == <<"l","a","p"," ","s","w","i","m">>

\* re.search(r'\(\d+\)', s): an opening parenthesis, one or more digits, a
\* closing parenthesis
HasLaneCount(s) ==
    \E i \in 1..Len(s) : \E j \in (i + 2)..Len(s) :
        /\ s[i] = "("
        /\ s[j] = ")"
        /\ \A k \in (i + 1)..(j - 1) : IsDigit(s[k])

\* conflicts_with_small_pool with the test for the main pool made first
conflicts_main_first(activity) ==
    LET pool_area == StrLower(StrStrip(activity.pool_area))
    IN  IF StrContains(pool_area, Str_main_pool) THEN FALSE
        ELSE IF StrContains(pool_area, Str_small_pool) THEN TRUE
        ELSE IF HasLaneCount(pool_area) THEN FALSE
        ELSE IF pool_area = <<>> THEN TRUE
        ELSE FALSE

conflicts_with_small_pool(activity) ==
    LET pool_area == StrLower(StrStrip(activity.pool_area))
    IN  IF StrContains(pool_area, Str_small_pool) THEN TRUE
        ELSE IF StrContains(pool_area, Str_main_pool) THEN FALSE
        ELSE IF HasLaneCount(pool_area) THEN FALSE
        ELSE IF pool_area = <<>> THEN TRUE
        ELSE FALSE

\* times_overlap with <= in place of <
times_overlap_closed(act1, act2) ==
    /\ time_to_minutes(act1.start) <= time_to_minutes(act2.end)
    /\ time_to_minutes(act2.start) <= time_to_minutes(act1.end)

times_overlap(act1, act2) ==
    LET start1 == time_to_minutes(act1.start)
        end1 == time_to_minutes(act1.end)
        start2 == time_to_minutes(act2.start)
        end2 == time_to_minutes(act2.end)
    IN  start1 < end2 /\ start2 < end1

\* 'lap swim' in a.get('activity', '').lower()
IsLapSwim(a) == StrContains(StrLower(a.activity), Str_lap_swim)

SecretSwim(pool_name, weekday, a, note) ==
    [pool |-> pool_name, weekday |-> weekday,
     start |-> a.start, end |-> a.end, note |-> note]

NoteOnSteps == "Parent Child Swim on Steps"
NoteInSmallPool == "Parent Child Swim in Small Pool"

\* the body of calculate_balboa_secret_swim's loop for one day
balboa_day(activities, weekday, pool_name) ==
    LET has_conflict(lap_swim) ==
            \E k \in 1..Len(activities) :
                /\ ~IsLapSwim(activities[k])
                /\ times_overlap(lap_swim, activities[k])
        Free(a) == IsLapSwim(a) /\ ~has_conflict(a)
        free == SelectSeq(activities, Free)
    IN  [i \in 1..Len(free) |->
            SecretSwim(pool_name, weekday, free[i], NoteOnSteps)]

calculate_balboa_secret_swim(raw, pool_name) ==
    [d \in {Weekdays[i] : i \in 1..Len(Weekdays)} |->
        IF d \in DOMAIN raw THEN balboa_day(raw[d], d, pool_name) ELSE <<>>]

\* the loop of calculate_garfield_secret_swim over one day's activities from
\* index i on, with the slot keys added so far and the windows appended so far
RECURSIVE garfield_loop(_, _, _, _, _, _)
garfield_loop(activities, i, added_slots, out, weekday, pool_name) ==
    IF i > Len(activities) THEN out
    ELSE
    LET activity == activities[i]
        has_conflict ==
            \E k \in 1..Len(activities) :
                /\ activities[k] # activity
                /\ conflicts_with_small_pool(activities[k])
                /\ times_overlap(activity, activities[k])
        slot_key == <<activity.start, activity.end>>
    IN  IF conflicts_with_small_pool(activity) \/ has_conflict
               \/ slot_key \in added_slots
        THEN garfield_loop(activities, i + 1, added_slots, out,
                           weekday, pool_name)
        ELSE garfield_loop(activities, i + 1, added_slots \cup {slot_key},
                 Append(out, SecretSwim(pool_name, weekday, activity,
                                        NoteInSmallPool)),
                 weekday, pool_name)

\* calculate_garfield_secret_swim without the set of added slots
calculate_garfield_no_dedup(raw, pool_name) ==
    [d \in {Weekdays[i] : i \in 1..Len(Weekdays)} |->
        IF d \in DOMAIN raw
        THEN LET acts == raw[d]
                 Ok(a) ==
                    /\ ~conflicts_with_small_pool(a)
                    /\ ~\E k \in 1..Len(acts) :
                          /\ acts[k] # a
                          /\ conflicts_with_small_pool(acts[k])
                          /\ times_overlap(a, acts[k])
                 ok == SelectSeq(acts, Ok)
             IN  [i \in 1..Len(ok) |->
                    SecretSwim(pool_name, d, ok[i], NoteInSmallPool)]
        ELSE <<>>]

calculate_garfield_secret_swim(raw, pool_name) ==
    [d \in {Weekdays[i] : i \in 1..Len(Weekdays)} |->
        IF d \in DOMAIN raw
        THEN garfield_loop(raw[d], 1, {}, <<>>, d, pool_name)
        ELSE <<>>]

Str_6_00AM == <<"6",":","0","0","A","M">>
Str_6_30AM == <<"6",":","3","0","A","M">>
Str_6_45AM == <<"6",":","4","5","A","M">>
Str_7_00AM == <<"7",":","0","0","A","M">>
Str_7_30AM == <<"7",":","3","0","A","M">>
Str_8_00AM == <<"8",":","0","0","A","M">>
Str_SeniorLapSwim == <<"S","e","n","i","o","r"," ","L","a","p"," ","S","w","i","m">>
Str_SwimLessons == <<"S","w","i","m"," ","L","e","s","s","o","n","s">>
Str_WaterAerobics == <<"W","a","t","e","r"," ","A","e","r","o","b","i","c","s">>
Str_Diving == <<"D","i","v","i","n","g">>
Str_FamilySwim == <<"F","a","m","i","l","y"," ","S","w","i","m">>
Str_Lanes4 == <<"(","4",")">>
Str_MainPool == <<"M","a","i","n"," ","P","o","o","l">>
Str_BothPools == <<"M","a","i","n"," ","P","o","o","l"," ","&"," ","S","m","a","l","l"," ","P","o","o","l">>
Str_DeepEnd == <<"D","e","e","p"," ","E","n","d">>
Str_Blank == <<" ">>

\* a lap swim in four lanes, 6:00AM-7:00AM
ActLap == Rec(Str_6_00AM, Str_7_00AM, Str_LapSwim, Str_Lanes4)
\* a second lap swim that overlaps the first
ActSeniorLap == Rec(Str_6_30AM, Str_7_30AM, Str_SeniorLapSwim, Str_MainPool)
\* an unrelated activity with no location inside the first lap swim
ActTeam == Rec(Str_6_30AM, Str_6_45AM, Str_SwimTeam, Str_Empty)
\* a small pool activity that starts when the first lap swim ends
ActLessons == Rec(Str_7_00AM, Str_8_00AM, Str_SwimLessons, Str_SmallPool)
\* an activity in both pools
ActAerobics == Rec(Str_7_30AM, Str_8_00AM, Str_WaterAerobics, Str_BothPools)
\* an activity with another location at the first lap swim's times
ActDiving == Rec(Str_6_00AM, Str_7_00AM, Str_Diving, Str_DeepEnd)
\* an activity whose location is one space
ActFamily == Rec(Str_7_30AM, Str_8_00AM, Str_FamilySwim, Str_Blank)

Activities ==
    {ActLap, ActSeniorLap, ActTeam, ActLessons, ActAerobics, ActDiving,
     ActFamily}

\* the largest number of records on the weekday that holds any
MaxActs == 2

ActivityLists ==
    UNION {[1..n -> Activities] : n \in 0..MaxActs}

\* the raw schedules handed to the calculators: seven weekdays, one of which
\* holds records
DeriveSchedules ==
    {[d \in {Weekdays[i] : i \in 1..Len(Weekdays)} |->
        IF d = busy THEN acts ELSE <<>>] :
        busy \in {Weekdays[i] : i \in 1..Len(Weekdays)},
        acts \in ActivityLists}

InitDerive ==
    /\ ExtractIdle
    /\ PoolIdle
    /\ CacheIdle
    /\ PhantomIdle
    /\ FuncIdle
    /\ d_pc = "start"
    /\ d_raw \in DeriveSchedules
    /\ d_balboa = <<>>
    /\ d_garfield = <<>>
    /\ d_class = <<>>
    /\ d_overlap = <<>>

\* add_secret_swim_times for Balboa Pool
CalculateBalboa ==
    /\ d_pc = "start"
    /\ d_balboa' = calculate_balboa_secret_swim(d_raw, "Balboa Pool")
    /\ d_pc' = "balboa"
    /\ UNCHANGED <<d_raw, d_garfield, d_class, d_overlap>>
    /\ UNCHANGED <<xvars, pvars, fvars, gvars, cvars>>

\* add_secret_swim_times for Garfield Pool and Hamilton Pool
CalculateGarfield ==
    /\ d_pc = "start"
    /\ \E pool_name \in {"Garfield Pool", "Hamilton Pool"} :
          d_garfield' = calculate_garfield_secret_swim(d_raw, pool_name)
    /\ d_pc' = "garfield"
    /\ UNCHANGED <<d_raw, d_balboa, d_class, d_overlap>>
    /\ UNCHANGED <<xvars, pvars, fvars, gvars, cvars>>

\* conflicts_with_small_pool applied to every record of the schedule, and
\* times_overlap to every pair of records of a day
ClassifyActivities ==
    /\ d_pc = "start"
    /\ d_overlap' = [d \in DOMAIN d_raw |->
                        [i \in 1..Len(d_raw[d]) |->
                            [j \in 1..Len(d_raw[d]) |->
                                times_overlap(d_raw[d][i], d_raw[d][j])]]]
    /\ d_class' = [d \in DOMAIN d_raw |->
                      [i \in 1..Len(d_raw[d]) |->
                          conflicts_with_small_pool(d_raw[d][i])]]
    /\ d_pc' = "classified"
    /\ UNCHANGED <<d_raw, d_balboa, d_garfield>>
    /\ UNCHANGED <<xvars, pvars, fvars, gvars, cvars>>

NextDerive ==
    \/ CalculateBalboa
    \/ CalculateGarfield
    \/ ClassifyActivities

SpecDerive == InitDerive /\ [][NextDerive]_vars

----------------------------------------------------------------------------
(* minutes_to_time, and the gap computation of add_secret_swim_times in
   test_pdf_scraping.py *)

DigitChar(n) == <<"0","1","2","3","4","5","6","7","8","9">>[n + 1]

\* str(n) for n >= 0
RECURSIVE IntStr(_)
IntStr(n) ==
    IF n < 10 THEN <<DigitChar(n)>>
    ELSE IntStr(n \div 10) \o <<DigitChar(n % 10)>>

\* f"{n:02d}" for n >= 0
Pad2(n) == IF n < 10 THEN <<"0">> \o IntStr(n) ELSE IntStr(n)

\* minutes_to_time with hour 0 printed as 0
minutes_to_time_zero(minutes) ==
    LET hours == minutes \div 60
        mins == minutes % 60
        is_pm == hours >= 12
        h12 == IF hours > 12 THEN hours - 12 ELSE hours
    IN  IntStr(h12) \o <<":">> \o Pad2(mins) \o (IF is_pm THEN PM ELSE AM)

minutes_to_time(minutes) ==
    LET hours == minutes \div 60
        mins == minutes % 60
        is_pm == hours >= 12
        h12 == IF hours > 12 THEN hours - 12
               ELSE IF hours = 0 THEN 12
               ELSE hours
    IN  IntStr(h12) \o <<":">> \o Pad2(mins) \o (IF is_pm THEN PM ELSE AM)

\* tuple comparison of two (start, end) pairs of minutes
PairLess(a, b) == a[1] < b[1] \/ (a[1] = b[1] /\ a[2] < b[2])

\* list.sort() on a list of (start, end) pairs
RECURSIVE SortPairs(_)
SortPairs(s) ==
    IF Len(s) <= 1 THEN s
    ELSE LET rest == SortPairs(Tail(s))
             x == Head(s)
             n == Cardinality({i \in 1..Len(rest) : PairLess(rest[i], x)})
         IN  SubSeq(rest, 1, n) \o <<x>> \o SubSeq(rest, n + 1, Len(rest))

\* the conflicts of a lap swim slot: the family slots that overlap it
lap_conflicts(lap_start, lap_end, family_slots) ==
    LET Hit(f) ==
            ~(\/ lap_end <= time_to_minutes(f.start)
              \/ lap_start >= time_to_minutes(f.end))
        hits == SelectSeq(family_slots, Hit)
    IN  [i \in 1..Len(hits) |->
            <<time_to_minutes(hits[i].start), time_to_minutes(hits[i].end)>>]

\* the sweep that keeps the last gap only
RECURSIVE available_ranges_last(_, _, _, _)
available_ranges_last(conflicts, current_start, lap_end, ranges) ==
    IF conflicts = <<>>
    THEN IF current_start < lap_end
         THEN <<<<current_start, lap_end>>>>
         ELSE <<>>
    ELSE available_ranges_last(Tail(conflicts),
             IF current_start > Head(conflicts)[2] THEN current_start
             ELSE Head(conflicts)[2],
             lap_end, ranges)

\* the sweep over the sorted conflicts from current_start on, with the
\* ranges found so far
RECURSIVE available_ranges(_, _, _, _)
available_ranges(conflicts, current_start, lap_end, ranges) ==
    IF conflicts = <<>>
    THEN IF current_start < lap_end
         THEN Append(ranges, <<current_start, lap_end>>)
         ELSE ranges
    ELSE LET conflict_start == Head(conflicts)[1]
             conflict_end == Head(conflicts)[2]
         IN  available_ranges(Tail(conflicts),
                 IF current_start > conflict_end THEN current_start
                 ELSE conflict_end,
                 lap_end,
                 IF current_start < conflict_start
                 THEN Append(ranges, <<current_start, conflict_start>>)
                 ELSE ranges)

SwimSlot(pool_name, weekday, start, end, note) ==
    [pool |-> pool_name, weekday |-> weekday, start |-> start, end |-> end,
     note |-> note]

\* the entries add_secret_swim_times appends for one lap swim slot
lap_slot_entries(lap_slot, family_slots, pool_name, weekday, note) ==
    LET lap_start == time_to_minutes(lap_slot.start)
        lap_end == time_to_minutes(lap_slot.end)
        conflicts == lap_conflicts(lap_start, lap_end, family_slots)
    IN  IF conflicts = <<>>
        THEN <<SwimSlot(pool_name, weekday, lap_slot.start, lap_slot.end,
                        note)>>
        ELSE LET ranges == available_ranges(SortPairs(conflicts), lap_start,
                                            lap_end, <<>>)
             IN  [i \in 1..Len(ranges) |->
                    SwimSlot(pool_name, weekday,
                             minutes_to_time(ranges[i][1]),
                             minutes_to_time(ranges[i][2]), note)]

RECURSIVE lap_slots_entries(_, _, _, _, _)
lap_slots_entries(lap_slots, family_slots, pool_name, weekday, note) ==
    IF lap_slots = <<>> THEN <<>>
    ELSE lap_slot_entries(Head(lap_slots), family_slots, pool_name, weekday,
                          note)
         \o lap_slots_entries(Tail(lap_slots), family_slots, pool_name,
                              weekday, note)

\* add_secret_swim_times of test_pdf_scraping.py for Balboa Pool
scraping_add_secret_swim_times(family_swim_data, lap_swim_data, pool_name) ==
    [d \in {Weekdays[i] : i \in 1..Len(Weekdays)} |->
        family_swim_data[d]
        \o lap_slots_entries(lap_swim_data[d], family_swim_data[d],
                             pool_name, d, NoteOnSteps)]

Str_1_00PM == <<"1",":","0","0","P","M">>
Str_2_00PM == <<"2",":","0","0","P","M">>

NoteFamily == "Family Swim"

FamilySlot(weekday, start, end) ==
    SwimSlot("Balboa Pool", weekday, start, end, NoteFamily)

\* the clock strings of the family and lap swim slots, in ascending order
SweepTimes ==
    <<Str_9_00AM, Str_10_00AM, Str_11_00AM, NOON, Str_1_00PM, Str_2_00PM>>

\* the (start, end) pairs a family swim slot can have: every pair with
\* start before end, one with end before start and one of length zero
FamilyIntervals ==
    {<<SweepTimes[p[1]], SweepTimes[p[2]]>> :
        p \in {q \in (1..Len(SweepTimes)) \X (1..Len(SweepTimes)) :
                  q[1] < q[2]}}
    \cup {<<Str_11_00AM, Str_10_00AM>>, <<Str_10_00AM, Str_10_00AM>>}

\* the (start, end) pairs of the lap swim slot
LapIntervals ==
    {<<Str_9_00AM, Str_2_00PM>>, <<Str_10_00AM, NOON>>,
     <<Str_09_00am, Str_11_00AM>>}

\* the largest number of family swim slots on the day
MaxFamily == 2

SweepInputs ==
    {[weekday |-> "Monday",
      lap_slot |-> lap,
      family |-> fam] :
        lap \in LapIntervals,
        fam \in UNION {[1..n -> FamilyIntervals] : n \in 0..MaxFamily}}

\* the weekly dict that holds slots on one weekday
OneDay(weekday, slots) ==
    [d \in {Weekdays[i] : i \in 1..Len(Weekdays)} |->
        IF d = weekday THEN slots ELSE <<>>]

InitSweep ==
    /\ ExtractIdle
    /\ PoolIdle
    /\ CacheIdle
    /\ PhantomIdle
    /\ DeriveIdle
    /\ f_pc = "start"
    /\ f_in \in SweepInputs
    /\ f_out = <<>>

\* add_secret_swim_times(family_swim_data, lap_swim_data, "Balboa Pool")
AddSecretSwimTimes ==
    /\ f_pc = "start"
    /\ LET family_swim_data ==
              OneDay(f_in.weekday,
                     [i \in 1..Len(f_in.family) |->
                         FamilySlot(f_in.weekday, f_in.family[i][1],
                                    f_in.family[i][2])])
           lap_swim_data ==
              OneDay(f_in.weekday,
                     <<SwimSlot("Balboa Pool", f_in.weekday,
                                f_in.lap_slot[1], f_in.lap_slot[2],
                                "Lap Swim")>>)
       IN  f_out' = scraping_add_secret_swim_times(family_swim_data,
                        lap_swim_data, "Balboa Pool")
    /\ f_pc' = "returned"
    /\ UNCHANGED f_in
    /\ UNCHANGED <<xvars, pvars, dvars, gvars, cvars>>

NextSweep == AddSecretSwimTimes

SpecSweep == InitSweep /\ [][NextSweep]_vars

----------------------------------------------------------------------------
(* combine_and_sort_schedules *)

\* list.sort(key=time_sort_key) that puts a slot before the slots of the
\* same start time already sorted
RECURSIVE sort_by_start_unstable(_)
sort_by_start_unstable(day_slots) ==
    IF Len(day_slots) <= 1 THEN day_slots
    ELSE LET front == sort_by_start_unstable(
                          SubSeq(day_slots, 1, Len(day_slots) - 1))
             x == day_slots[Len(day_slots)]
             n == Cardinality({i \in 1..Len(front) :
                     time_to_minutes(front[i].start)
                         < time_to_minutes(x.start)})
         IN  SubSeq(front, 1, n) \o <<x>> \o SubSeq(front, n + 1, Len(front))

\* day_slots.sort(key=time_sort_key): a stable sort by
\* time_to_minutes(slot['start'])
RECURSIVE sort_by_start(_)
sort_by_start(day_slots) ==
    IF Len(day_slots) <= 1 THEN day_slots
    ELSE LET front == sort_by_start(SubSeq(day_slots, 1, Len(day_slots) - 1))
             x == day_slots[Len(day_slots)]
             n == Cardinality({i \in 1..Len(front) :
                     time_to_minutes(front[i].start)
                         <= time_to_minutes(x.start)})
         IN  SubSeq(front, 1, n) \o <<x>> \o SubSeq(front, n + 1, Len(front))

combine_and_sort_schedules(family_swim_data, secret_swim_data) ==
    [d \in {Weekdays[i] : i \in 1..Len(Weekdays)} |->
        sort_by_start(
            (IF d \in DOMAIN family_swim_data THEN family_swim_data[d]
             ELSE <<>>)
            \o (IF d \in DOMAIN secret_swim_data THEN secret_swim_data[d]
                ELSE <<>>))]

\* the (start, end) pairs of the family swim slots of the day
PrimaryIntervals ==
    {<<Str_9_00AM, Str_10_00AM>>, <<Str_11_00AM, NOON>>,
     <<Str_09_00am, Str_11_00AM>>}

\* the (start, end) pairs of the secret swim slots of the day
DerivedIntervals ==
    {<<Str_9_00AM, Str_10_00AM>>, <<Str_10_00AM, Str_11_00AM>>,
     <<NOON, Str_1_00PM>>}

\* the largest number of family swim slots, and of secret swim slots, on
\* the day
MaxSlots == 2

CombineInputs ==
    {[weekday |-> w, family |-> fam, secret |-> sec] :
        w \in {"Saturday", "Monday"},
        fam \in UNION {[1..n -> PrimaryIntervals] : n \in 0..MaxSlots},
        sec \in UNION {[1..n -> DerivedIntervals] : n \in 0..MaxSlots}}

InitCombine ==
    /\ ExtractIdle
    /\ PoolIdle
    /\ CacheIdle
    /\ PhantomIdle
    /\ DeriveIdle
    /\ f_pc = "start"
    /\ f_in \in CombineInputs
    /\ f_out = <<>>

\* the family swim slots and the secret swim slots of the input, as records
CombineFamily ==
    [i \in 1..Len(f_in.family) |->
        FamilySlot(f_in.weekday, f_in.family[i][1], f_in.family[i][2])]
CombineSecret ==
    [i \in 1..Len(f_in.secret) |->
        SwimSlot("Balboa Pool", f_in.weekday, f_in.secret[i][1],
                 f_in.secret[i][2], NoteOnSteps)]

\* combine_and_sort_schedules(family_swim_data, secret_swim_data)
CombineAndSort ==
    /\ f_pc = "start"
    /\ f_out' = combine_and_sort_schedules(
                    OneDay(f_in.weekday, CombineFamily),
                    OneDay(f_in.weekday, CombineSecret))
    /\ f_pc' = "returned"
    /\ UNCHANGED f_in
    /\ UNCHANGED <<xvars, pvars, dvars, gvars, cvars>>

NextCombine == CombineAndSort

SpecCombine == InitCombine /\ [][NextCombine]_vars

----------------------------------------------------------------------------
(* time_to_minutes and minutes_to_time applied to clock strings and to
   minutes *)

\* the clock string of hour h (1..12), minute mm and suffix suf
ClockString(h, mm, suf) == IntStr(h) \o <<":">> \o Pad2(mm) \o suf

\* h:mm with h in 1..12 without leading zero, two-digit minutes, AM or PM
CanonicalStrings ==
    {ClockString(h, mm, suf) : h \in 1..12, mm \in 0..59, suf \in {AM, PM}}

Str_09_00AM == <<"0","9",":","0","0","A","M">>
Str_12_00PM == <<"1","2",":","0","0","P","M">>
Str_9_00am == <<"9",":","0","0","a","m">>
Str_9_00_AM == <<"9",":","0","0"," ","A","M">>
Str_Padded == <<" ","9",":","0","0","A","M"," ">>
Str_noon == <<"n","o","o","n">>
Str_9_00 == <<"9",":","0","0">>
Str_9AM == <<"9","A","M">>
Str_13_00PM == <<"1","3",":","0","0","P","M">>
Str_9_75AM == <<"9",":","7","5","A","M">>
Str_0900 == <<"0","9","0","0">>
Str_Closed == <<"C","l","o","s","e","d">>
Str_9_00XM == <<"9",":","0","0","X","M">>
Str_AMOnly == <<"A","M">>

\* other strings handed to time_to_minutes: accepted variants of the
\* canonical form, and strings of other shapes
OtherStrings ==
    {Str_09_00AM, Str_9_00am, Str_9_00_AM, Str_Padded, NOON, Str_noon,
     Str_9_00, Str_9AM, Str_13_00PM, Str_9_75AM, Str_0900, Str_Closed,
     Str_9_00XM, Str_AMOnly, Str_Empty}

TimeInputs ==
    {[kind |-> "minutes", value |-> m] : m \in 0..(24 * 60 - 1)}
    \cup {[kind |-> "text", value |-> s] :
            s \in CanonicalStrings \cup OtherStrings}

InitTime ==
    /\ ExtractIdle
    /\ PoolIdle
    /\ CacheIdle
    /\ PhantomIdle
    /\ DeriveIdle
    /\ f_pc = "start"
    /\ f_in \in TimeInputs
    /\ f_out = <<>>

\* minutes_to_time(minutes), then time_to_minutes of the string
MinutesToTime ==
    /\ f_pc = "start"
    /\ f_in.kind = "minutes"
    /\ LET s == minutes_to_time(f_in.value)
       IN  f_out' = [text |-> s, minutes |-> time_to_minutes(s)]
    /\ f_pc' = "formatted"
    /\ UNCHANGED f_in
    /\ UNCHANGED <<xvars, pvars, dvars, gvars, cvars>>

\* time_to_minutes(time_str), then minutes_to_time of the minutes when no
\* ValueError was raised
TimeToMinutes ==
    /\ f_pc = "start"
    /\ f_in.kind = "text"
    /\ LET n == time_to_minutes(f_in.value)
       IN  f_out' = [minutes |-> n,
                     text |-> IF n = ValueError THEN <<>>
                              ELSE minutes_to_time(n)]
    /\ f_pc' = "parsed"
    /\ UNCHANGED f_in
    /\ UNCHANGED <<xvars, pvars, dvars, gvars, cvars>>

NextTime ==
    \/ MinutesToTime
    \/ TimeToMinutes

SpecTime == InitTime /\ [][NextTime]_vars

----------------------------------------------------------------------------
(* get_time_slots applied to two attempts *)

\* the start and end strings of the records of an attempt
SlotStarts == {Str_9_00AM, Str_09_00am, Str_9_00_AM}
SlotEnds == {NOON, Str_12_00PM, Str_11_00AM}

SlotRecords ==
    {Rec(s, e, Str_LapSwim, Str_Empty) : s \in SlotStarts, e \in SlotEnds}

\* the largest number of records in an attempt
MaxSlotRecords == 1

SlotAttempts == UNION {[1..n -> SlotRecords] : n \in 0..MaxSlotRecords}

InitSlots ==
    /\ ExtractIdle
    /\ PoolIdle
    /\ CacheIdle
    /\ PhantomIdle
    /\ DeriveIdle
    /\ f_pc = "start"
    /\ f_in \in [a : SlotAttempts, b : SlotAttempts]
    /\ f_out = <<>>

\* get_time_slots(e) for two of the attempts, as pick_best_of_three does
\* before it compares them
GetTimeSlots ==
    /\ f_pc = "start"
    /\ f_out' = [a |-> get_time_slots(f_in.a), b |-> get_time_slots(f_in.b)]
    /\ f_pc' = "slots"
    /\ UNCHANGED f_in
    /\ UNCHANGED <<xvars, pvars, dvars, gvars, cvars>>

NextSlots == GetTimeSlots

SpecSlots == InitSlots /\ [][NextSlots]_vars

----------------------------------------------------------------------------
(* extract_single_day applied to the answers to its calls *)

InitDay ==
    /\ ExtractIdle
    /\ PoolIdle
    /\ CacheIdle
    /\ PhantomIdle
    /\ DeriveIdle
    /\ f_pc = "start"
    /\ f_in \in [td : ExtractResponses(1), bu : ExtractResponses(1),
                 rec : Responses(1)]
    /\ f_out = <<>>

\* one call of extract_single_day
ExtractSingleDayOnce ==
    /\ f_pc = "start"
    /\ f_out' = extract_single_day(f_in.td, f_in.bu, f_in.rec)
    /\ f_pc' = IF f_out'.raised = "none" THEN "returned" ELSE "raised"
    /\ UNCHANGED f_in
    /\ UNCHANGED <<xvars, pvars, dvars, gvars, cvars>>

NextDay == ExtractSingleDayOnce

SpecDay == InitDay /\ [][NextDay]_vars

----------------------------------------------------------------------------
(* get_pool_schedule_from_pdf *)

Str_family == <<"f","a","m","i","l","y">>
Str_parent == <<"p","a","r","e","n","t">>
Str_child == <<"c","h","i","l","d">>
Str_intro == <<"i","n","t","r","o">>
Str_class == <<"c","l","a","s","s">>
Str_lesson == <<"l","e","s","s","o","n">>
Str_shallow == <<"s","h","a","l","l","o","w">>
Str_deep == <<"d","e","e","p">>

\* re.compile(r'parent.*child', re.IGNORECASE).search(s)
MatchesParentChild(s) ==
    LET low == StrLower(s)
    IN  \E i \in 1..Len(low) : \E j \in (i + Len(Str_parent))..Len(low) :
            /\ i + Len(Str_parent) - 1 <= Len(low)
            /\ SubSeq(low, i, i + Len(Str_parent) - 1) = Str_parent
            /\ j + Len(Str_child) - 1 <= Len(low)
            /\ SubSeq(low, j, j + Len(Str_child) - 1) = Str_child

\* re.compile(r'intro|class|lesson', re.IGNORECASE).search(s)
MatchesExclude(s) ==
    \/ StrContains(StrLower(s), Str_intro)
    \/ StrContains(StrLower(s), Str_class)
    \/ StrContains(StrLower(s), Str_lesson)

\* the note of a family swim slot: the normalized name, and the pool area
\* that the f-string adds to it, if any, with the separator it is added with
family_note(activity) ==
    LET base == IF StrContains(StrLower(activity.activity), Str_family)
                THEN "Family Swim" ELSE "Parent Child Swim"
        stripped == StrStrip(activity.pool_area)
        area == IF /\ StrStartsWith(stripped, <<"(">>)
                   /\ StrEndsWith(stripped, <<")">>)
                THEN SubSeq(stripped, 2, Len(stripped) - 1)
                ELSE stripped
    IN  IF stripped = <<>> THEN base
        ELSE IF StrLower(area) \in {Str_shallow, Str_deep}
             THEN <<base, " (", area, ")">>
        ELSE IF area # <<>> THEN <<base, " - ", area>>
        ELSE base

\* filter_family_swim: the family and parent-child records of every weekday
\* that are not introductions, classes or lessons
filter_family_swim(raw, name) ==
    [d \in {Weekdays[i] : i \in 1..Len(Weekdays)} |->
        LET acts == IF d \in DOMAIN raw THEN raw[d] ELSE <<>>
            keep(a) ==
                /\ \/ StrContains(StrLower(a.activity), Str_family)
                   \/ MatchesParentChild(a.activity)
                /\ ~MatchesExclude(a.activity)
            kept == SelectSeq(acts, keep)
        IN  [i \in 1..Len(kept) |->
                [pool |-> name, weekday |-> d, start |-> kept[i].start,
                 end |-> kept[i].end, note |-> family_note(kept[i])]]]

SECRET_SWIM_POOLS == {"Balboa Pool", "Hamilton Pool", "Garfield Pool"}

\* add_secret_swim_times for a pool in SECRET_SWIM_POOLS and a raw schedule
\* that is not empty
add_secret_swim_times(raw, name) ==
    IF name \in {"Garfield Pool", "Hamilton Pool"}
    THEN calculate_garfield_secret_swim(raw, name)
    ELSE calculate_balboa_secret_swim(raw, name)

\* the sort key of combine_and_sort_schedules raises ValueError when the
\* start of a slot is not a time
CombineRaises(family_swim_data, secret_swim_data) ==
    \E d \in DOMAIN family_swim_data :
        LET slots == family_swim_data[d]
                     \o (IF d \in DOMAIN secret_swim_data
                         THEN secret_swim_data[d] ELSE <<>>)
        IN  \E i \in 1..Len(slots) :
                time_to_minutes(slots[i].start) = ValueError

\* an except clause that returns the weekdays extracted so far
extract_raw_schedule_partial(partial) == Returned(partial)
\* the except clause of extract_raw_schedule: the weekdays extracted so far
\* are dropped
extract_raw_schedule_except(partial) == None

Str_FamilySwimLower == <<"f","a","m","i","l","y"," ","s","w","i","m">>
Str_ParentChildIntro ==
    <<"P","a","r","e","n","t"," ","C","h","i","l","d"," ","I","n","t","r","o">>

\* a lap swim record, a family swim record, a family swim record whose start
\* is not a time, and a class that filter_family_swim excludes
PoolLap == Rec(Str_9_00AM, Str_10_00AM, Str_LapSwim, Str_Lanes4)
PoolFamily == Rec(Str_10_00AM, Str_11_00AM, Str_FamilySwimLower, Str_Empty)
PoolFamilyClosed == Rec(Str_Closed, Str_11_00AM, Str_FamilySwim, Str_Empty)
PoolIntro == Rec(Str_11_00AM, NOON, Str_ParentChildIntro, Str_SmallPool)

\* what the consensus extraction of one weekday can come to
PoolDayLists == {<<PoolLap>>, <<PoolFamily>>, <<PoolFamilyClosed>>,
                 <<PoolIntro>>}

\* the largest number of weekdays that hold any record
MaxBusyDays == 2

PoolNames == {"Garfield Pool", "Balboa Pool", "Mission Community Pool"}

\* the pool has no entry in the cache file
NoEntry == [pdf_signature |-> "", schedule_data |-> <<>>]
\* the entry of an earlier run on another list of PDFs
StaleEntry(name) ==
    [pdf_signature |-> "earlier",
     schedule_data |->
        [d \in {Weekdays[i] : i \in 1..Len(Weekdays)} |->
            IF d = "Saturday"
            THEN <<[pool |-> name, weekday |-> d,
                    start |-> Str_9_00AM, end |-> Str_10_00AM,
                    note |-> "Family Swim"]>>
            ELSE <<>>]]
CacheEntry(data) == [pdf_signature |-> "current", schedule_data |-> data]

BusyDays(raw) == {d \in DOMAIN raw : raw[d] # <<>>}

\* the run from the call of extract_raw_schedule on: the PDF was selected
\* and downloaded, the cache was loaded and did not answer
InitPool ==
    /\ ExtractIdle
    /\ CacheIdle
    /\ PhantomIdle
    /\ DeriveIdle
    /\ FuncIdle
    /\ g_pc = "extract"
    /\ g_pool \in PoolNames
    /\ g_before \in {NoEntry, StaleEntry(g_pool)}
    /\ g_cache = g_before
    /\ g_raw = <<>>
    /\ g_family = <<>>
    /\ g_secret = <<>>
    /\ g_phantoms = [done |-> FALSE, removed |-> {}]
    /\ g_return = Pending
    /\ g_failure = "none"

\* an exception reached the except clause of get_pool_schedule_from_pdf, or
\* extract_raw_schedule returned None
PoolFails(why) ==
    /\ g_pc' = "done"
    /\ g_return' = None
    /\ g_failure' = why
    /\ UNCHANGED <<g_pool, g_before, g_phantoms, g_cache, g_raw, g_family,
                   g_secret>>

\* convert_pdf_to_image gives no image: extract_raw_schedule returns None
PoolConvertFails ==
    /\ g_pc = "extract"
    /\ g_raw = <<>>
    /\ PoolFails("convert")
    /\ UNCHANGED <<xvars, pvars, dvars, fvars, cvars>>

\* one pass of the loop over the weekdays in extract_raw_schedule: the three
\* attempts and pick_best_of_three give the weekday's records or raise
PoolExtractDay ==
    /\ g_pc = "extract"
    /\ Cardinality(DOMAIN g_raw) < Len(Weekdays)
    /\ LET d == Weekdays[Cardinality(DOMAIN g_raw) + 1]
       IN  \/ \E r \in {<<>>} \cup PoolDayLists :
                /\ r # <<>> => Cardinality(BusyDays(g_raw)) < MaxBusyDays
                /\ g_raw' = g_raw @@ (d :> r)
                /\ UNCHANGED <<g_pc, g_pool, g_before, g_phantoms, g_cache,
                               g_family, g_secret, g_return, g_failure>>
           \/ LET returned == extract_raw_schedule_except(g_raw)
              IN  IF returned.kind = "None" \/ DOMAIN returned.value = {}
                  THEN PoolFails("oracle")
                  ELSE /\ g_pc' = "debug"
                       /\ g_failure' = "oracle"
                       /\ UNCHANGED <<g_pool, g_before, g_phantoms, g_cache,
                                      g_raw, g_family, g_secret, g_return>>
    /\ UNCHANGED <<xvars, pvars, dvars, fvars, cvars>>

\* the loop is over: extract_raw_schedule returns raw_schedule
PoolExtractReturns ==
    /\ g_pc = "extract"
    /\ Cardinality(DOMAIN g_raw) = Len(Weekdays)
    /\ g_pc' = "debug"
    /\ UNCHANGED <<g_pool, g_before, g_phantoms, g_cache, g_raw, g_family,
                   g_secret, g_return, g_failure>>
    /\ UNCHANGED <<xvars, pvars, dvars, fvars, cvars>>

\* the (day, slot) of the suspicious entries from position i on whose
\* position is in negative, in order
RECURSIVE Chosen(_, _, _)
Chosen(found, negative, i) ==
    IF i > Len(found) THEN <<>>
    ELSE (IF i \in negative
          THEN <<Phantom(found[i].day, found[i].slot)>> ELSE <<>>)
         \o Chosen(found, negative, i + 1)

\* phantoms_to_remove over all the answers the verification oracle can give:
\* the suspicious entries verified negative
PhantomChoices(raw) ==
    LET found == find_suspicious_duplicates(raw)
    IN  {Chosen(found, negative, 1) : negative \in SUBSET (1..Len(found))}

\* the raw schedule is written to the debug file; for Garfield Pool
\* remove_phantom_entries cleans it, or raises when a verification fails
PoolRemovePhantoms ==
    /\ g_pc = "debug"
    /\ IF g_pool = "Garfield Pool"
       THEN \/ /\ find_suspicious_duplicates(g_raw) # <<>>
               /\ PoolFails("verification")
            \/ \E phantoms \in PhantomChoices(g_raw) :
                /\ g_raw' = IF phantoms = <<>> THEN g_raw
                            ELSE cleaned_data(g_raw, phantoms)
                /\ g_phantoms' =
                        [done |-> TRUE,
                         removed |-> {phantoms[k] : k \in 1..Len(phantoms)}]
                /\ g_pc' = "filter"
                /\ UNCHANGED <<g_pool, g_before, g_cache, g_family, g_secret,
                               g_return, g_failure>>
       ELSE /\ g_pc' = "filter"
            /\ UNCHANGED <<g_pool, g_before, g_phantoms, g_cache, g_raw,
                           g_family, g_secret, g_return, g_failure>>
    /\ UNCHANGED <<xvars, pvars, dvars, fvars, cvars>>

\* PASS 2: filter_family_swim; an empty result ends the run with None
PoolFilterFamilySwim ==
    /\ g_pc = "filter"
    /\ LET family_swim_data == filter_family_swim(g_raw, g_pool)
       IN  IF DOMAIN family_swim_data = {}
           THEN /\ g_pc' = "done"
                /\ g_return' = None
                /\ UNCHANGED <<g_family, g_failure>>
           ELSE /\ g_pc' = "secret"
                /\ g_family' = family_swim_data
                /\ UNCHANGED <<g_return, g_failure>>
    /\ UNCHANGED <<g_pool, g_before, g_phantoms, g_cache, g_raw, g_secret>>
    /\ UNCHANGED <<xvars, pvars, dvars, fvars, cvars>>

\* save_cache catches its own exceptions: when the write fails the file is
\* as it was or no longer holds the entry
SaveCache(entry) ==
    \/ g_cache' = entry
    \/ g_cache' = g_cache
    \/ g_cache' = NoEntry

\* PASS 3 to 5 for the pools with secret swim times: the lap swims and the
\* other activities are taken from the raw schedule and add_secret_swim_times
\* derives the secret swim slots
PoolSecretSwim ==
    /\ g_pc = "secret"
    /\ g_pc' = "combine"
    /\ g_secret' = IF g_pool \in SECRET_SWIM_POOLS
                   THEN add_secret_swim_times(g_raw, g_pool)
                   ELSE g_secret
    /\ UNCHANGED <<g_pool, g_before, g_phantoms, g_cache, g_raw, g_family,
                   g_return, g_failure>>
    /\ UNCHANGED <<xvars, pvars, dvars, fvars, cvars>>

\* PASS 6 for the pools with secret swim times, then the cache entry is
\* written and the combined schedule returned
PoolCombineAndReturn ==
    /\ g_pc = "combine"
    /\ IF g_pool \in SECRET_SWIM_POOLS
       THEN IF CombineRaises(g_family, g_secret)
            THEN PoolFails("parse")
            ELSE /\ SaveCache(CacheEntry(
                        combine_and_sort_schedules(g_family, g_secret)))
                 /\ g_return' =
                        Returned(combine_and_sort_schedules(g_family,
                                                            g_secret))
                 /\ g_pc' = "done"
                 /\ UNCHANGED <<g_pool, g_before, g_phantoms, g_raw,
                                g_family, g_secret, g_failure>>
       ELSE /\ SaveCache(CacheEntry(g_family))
            /\ g_return' = Returned(g_family)
            /\ g_pc' = "done"
            /\ UNCHANGED <<g_pool, g_before, g_phantoms, g_raw, g_family,
                           g_secret, g_failure>>
    /\ UNCHANGED <<xvars, pvars, dvars, fvars, cvars>>

NextPool ==
    \/ PoolConvertFails
    \/ PoolExtractDay
    \/ PoolExtractReturns
    \/ PoolRemovePhantoms
    \/ PoolFilterFamilySwim
    \/ PoolSecretSwim
    \/ PoolCombineAndReturn

SpecPool == InitPool /\ [][NextPool]_vars

----------------------------------------------------------------------------
(* verify_slot_exists applied to the oracle's answer *)

\* the pieces the free-text answers are made of
AnswerTokens ==
    {<<"Y","E","S">>, <<"Y","e","s">>, <<"N","O">>, <<"n","o">>,
     <<"*","*","Y","E","S">>, <<"*","*","N","O">>,
     <<"i","t"," ">>, <<" ","i","t">>, <<" ">>}

\* the largest number of pieces in an answer
MaxTokens == 3

RECURSIVE Concat(_)
Concat(pieces) ==
    IF pieces = <<>> THEN <<>> ELSE Head(pieces) \o Concat(Tail(pieces))

\* the answers of the verification oracle
Answers ==
    {Concat(pieces) :
        pieces \in UNION {[1..n -> AnswerTokens] : n \in 0..MaxTokens}}

InitVerify ==
    /\ ExtractIdle
    /\ PoolIdle
    /\ CacheIdle
    /\ PhantomIdle
    /\ DeriveIdle
    /\ f_pc = "start"
    /\ f_in \in Answers
    /\ f_out = <<>>

\* the answer is read as is_real
VerifySlotExists ==
    /\ f_pc = "start"
    /\ f_out' = verify_slot_exists(f_in)
    /\ f_pc' = "verified"
    /\ UNCHANGED f_in
    /\ UNCHANGED <<xvars, pvars, dvars, gvars, cvars>>

NextVerify == VerifySlotExists

SpecVerify == InitVerify /\ [][NextVerify]_vars

----------------------------------------------------------------------------
(* select_schedule_pdf *)

\* \w of the regular expressions
IsWordChar(c) ==
    IsDigit(c) \/ c \in DOMAIN ToUpper \/ c \in DOMAIN ToLower \/ c = "_"

\* \b before position i of s, \b after position j of s, where the character
\* at that position is a word character
BoundaryBefore(s, i) == i = 1 \/ ~IsWordChar(s[i - 1])
BoundaryAfter(s, j) == j = Len(s) \/ ~IsWordChar(s[j + 1])

Str_NONE == <<"N","O","N","E">>

\* re.search(r'\bNONE\b', s, re.IGNORECASE)
SearchNONE(s) ==
    \E i \in 1..(Len(s) - 3) :
        /\ StrUpper(SubSeq(s, i, i + 3)) = Str_NONE
        /\ BoundaryBefore(s, i)
        /\ BoundaryAfter(s, i + 3)

\* the matches of r'\b(\d+)\b' in s: the whole runs of digits that no word
\* character touches
NumberMatches(s) ==
    {m \in (1..Len(s)) \X (1..Len(s)) :
        /\ m[1] <= m[2]
        /\ \A k \in m[1]..m[2] : IsDigit(s[k])
        /\ BoundaryBefore(s, m[1])
        /\ BoundaryAfter(s, m[2])}

\* re.search(r'\b(\d+)\b', s): the leftmost match
SearchNumber(s) ==
    CHOOSE m \in NumberMatches(s) : \A n \in NumberMatches(s) : m[1] <= n[1]

\* what select_schedule_pdf came to: the document or None, and the oracle
\* calls it made
Selection(v, n) == [value |-> v, calls |-> n]

Str_pool == <<" ","p","o","o","l">>
Str_mlk == <<"m","l","k">>
Str_mlk_key == <<"m","a","r","t","i","n"," ","l","u","t","h","e","r"," ","k","i","n","g"," ","j","r">>
Str_mission == <<"m","i","s","s","i","o","n">>
Str_mission_key == <<"m","i","s","s","i","o","n"," ","c","o","m","m","u","n","i","t","y">>

\* the search terms of a pool: its lower-case name, that name without
\* ' pool', and the abbreviations of pool_name_variants
search_terms_of(name) ==
    LET pool_name_lower == StrLower(name)
    IN  {pool_name_lower, StrRemove(pool_name_lower, Str_pool)}
            \cup (IF StrContains(pool_name_lower, Str_mlk_key)
                  THEN {Str_mlk} ELSE {})
            \cup (IF StrContains(pool_name_lower, Str_mission_key)
                  THEN {Str_mission} ELSE {})

\* schedule_docs: the documents whose name holds a search term of the pool
\* and no other pool's name
schedule_docs_of(documents, name, pools_list) ==
    LET pool_name_lower == StrLower(name)
        pool_name_base == StrRemove(pool_name_lower, Str_pool)
        search_terms == search_terms_of(name)
        other_pools ==
            {StrLower(pools_list[i]) : i \in 1..Len(pools_list)}
                \ {pool_name_lower}
        candidate(doc) ==
            /\ \E term \in search_terms :
                StrContains(StrLower(doc.name), term)
            /\ ~\E other \in other_pools :
                StrContains(StrLower(doc.name), other)
    IN  SelectSeq(documents, candidate)

\* the retry loop of select_schedule_pdf from attempt on; an oracle
\* exception ends it in the except clause
RECURSIVE selection_loop(_, _, _)
selection_loop(schedule_docs, responses, attempt) ==
    IF attempt > 3 THEN Selection(None, 3)
    ELSE IF responses[attempt].kind = "raise" THEN Selection(None, attempt)
    ELSE
    LET raw_response == StrStrip(responses[attempt].value)
    IN  IF SearchNONE(raw_response) THEN Selection(None, attempt)
        ELSE IF NumberMatches(raw_response) = {}
        THEN selection_loop(schedule_docs, responses, attempt + 1)
        ELSE
        LET number_match == SearchNumber(raw_response)
            selected_index ==
                DigitsValue(SubSeq(raw_response, number_match[1],
                                   number_match[2])) - 1
        IN  IF 0 <= selected_index /\ selected_index < Len(schedule_docs)
            THEN Selection(Returned(schedule_docs[selected_index + 1]),
                           attempt)
            ELSE selection_loop(schedule_docs, responses, attempt + 1)

select_schedule_pdf_first(schedule_docs, responses) ==
    IF schedule_docs = <<>> THEN Selection(None, 0)
    ELSE LET found == selection_loop(schedule_docs, responses, 1)
         IN  IF found.value = None /\ found.calls = 3
             THEN Selection(Returned(schedule_docs[1]), 3)
             ELSE found

\* select_schedule_pdf on the candidates and the answers the selection
\* oracle gives to its calls
select_schedule_pdf(schedule_docs, responses) ==
    IF schedule_docs = <<>> THEN Selection(None, 0)
    ELSE selection_loop(schedule_docs, responses, 1)

\* the pool asked for and the pools of the city
Name_Balboa == <<"B","a","l","b","o","a"," ","P","o","o","l">>
Name_Garfield == <<"G","a","r","f","i","e","l","d"," ","P","o","o","l">>
POOLS_LIST == <<Name_Balboa, Name_Garfield>>

\* documents of the facility page: two of the pool, one that names another
\* pool as well, one that names no pool
Doc_Fall == [name |-> <<"B","a","l","b","o","a"," ","F","a","l","l">>]
Doc_Lower == [name |-> <<"b","a","l","b","o","a"," ","p","o","o","l"," ","2">>]
Doc_Other == [name |-> <<"B","a","l","b","o","a"," ","a","t"," ","G","a","r","f","i","e","l","d"," ","P","o","o","l">>]
Doc_Rules == [name |-> <<"R","u","l","e","s">>]
DocNames == {Doc_Fall, Doc_Lower, Doc_Other, Doc_Rules}
MaxDocs == 2
DocumentLists == UNION {[1..n -> DocNames] : n \in 0..MaxDocs}

\* answers of the selection oracle, and a call that raises
Txt_NONE == <<"N","O","N","E">>
Txt_NoneDot == <<" ","N","o","n","e",".">>
Txt_1 == <<"1">>
Txt_2 == <<"2">>
Txt_3 == <<"3">>
Txt_0 == <<"0">>
Txt_2of3 == <<"2"," ","o","f"," ","3">>
Txt_maybe == <<"m","a","y","b","e">>
Txt_1orNone == <<"1"," ","o","r"," ","n","o","n","e">>
SelectionTexts ==
    {Txt_NONE, Txt_NoneDot, Txt_1, Txt_2, Txt_3, Txt_0, Txt_2of3, Txt_maybe,
     Txt_1orNone}
SelectionResponses ==
    {Resp("text", t) : t \in SelectionTexts} \cup {Resp("raise", <<>>)}

InitSelect ==
    /\ ExtractIdle
    /\ PoolIdle
    /\ CacheIdle
    /\ PhantomIdle
    /\ DeriveIdle
    /\ f_pc = "select"
    /\ f_in \in [documents : DocumentLists,
                 responses : [1..3 -> SelectionResponses]]
    /\ f_out = <<>>

SelectSchedulePdf ==
    /\ f_pc = "select"
    /\ f_out' = select_schedule_pdf(
                    schedule_docs_of(f_in.documents, Name_Balboa, POOLS_LIST),
                    f_in.responses)
    /\ f_pc' = "selected"
    /\ UNCHANGED <<f_in, xvars, pvars, dvars, gvars, cvars>>

NextSelect == SelectSchedulePdf

SpecSelect == InitSelect /\ [][NextSelect]_vars

----------------------------------------------------------------------------
(* The cache check of get_pool_schedule_from_pdf *)

\* ord(c) of the characters of document names
Ord(c) ==
    IF c = " " THEN 32
    ELSE IF IsDigit(c) THEN 48 + DigitValue(c)
    ELSE IF c \in DOMAIN ToLower
    THEN 64 + (CHOOSE i \in 1..26 : Letters[i][2] = c)
    ELSE 96 + (CHOOSE i \in 1..26 : Letters[i][1] = c)

\* s < t for strings
RECURSIVE StrLess(_, _)
StrLess(s, t) ==
    IF t = <<>> THEN FALSE
    ELSE IF s = <<>> THEN TRUE
    ELSE IF s[1] # t[1] THEN Ord(s[1]) < Ord(t[1])
    ELSE StrLess(Tail(s), Tail(t))

\* sorted(names)
RECURSIVE SortedNames(_)
SortedNames(names) ==
    IF names = <<>> THEN <<>>
    ELSE LET least == CHOOSE i \in 1..Len(names) :
                          \A j \in 1..Len(names) : ~StrLess(names[j], names[i])
         IN  <<names[least]>>
                 \o SortedNames(SubSeq(names, 1, least - 1)
                                    \o SubSeq(names, least + 1, Len(names)))

\* get_pdf_list_signature: the sorted names of the documents that hold a
\* search term
get_pdf_list_signature(documents, search_terms) ==
    LET matching(doc) ==
            \E term \in search_terms : StrContains(StrLower(doc.name), term)
        matching_pdfs == SelectSeq(documents, matching)
    IN  SortedNames([i \in 1..Len(matching_pdfs) |-> matching_pdfs[i].name])

\* the pool has no entry in the cache; an entry of the cache
Absent == [present |-> FALSE, pdf_signature |-> <<>>, schedule_data |-> None]
Entry(signature, data) ==
    [present |-> TRUE, pdf_signature |-> signature, schedule_data |-> data]

\* the test that lets the cached schedule be returned; schedule_data None is
\* falsy, a schedule with its seven weekdays is truthy
cache_hit_always(force_refresh, entry, current_pdf_signature) ==
    /\ entry.present
    /\ entry.pdf_signature = current_pdf_signature
    /\ entry.schedule_data # None

cache_hit(force_refresh, entry, current_pdf_signature) ==
    /\ ~force_refresh
    /\ entry.present
    /\ entry.pdf_signature = current_pdf_signature
    /\ entry.schedule_data # None

\* what the facility page lists: nothing, a document of no pool, one
\* schedule, two schedules in either order, a document that names another
\* pool as well
CachePages ==
    {<<>>, <<Doc_Rules>>, <<Doc_Fall>>, <<Doc_Fall, Doc_Lower>>,
     <<Doc_Lower, Doc_Fall>>, <<Doc_Other>>}

\* schedules a run can come to or find in the cache
ScheduleEarlier ==
    [weekday \in {Weekdays[i] : i \in 1..Len(Weekdays)} |->
        IF weekday = "Saturday" THEN <<PoolFamily>> ELSE <<>>]
ScheduleParsed ==
    [weekday \in {Weekdays[i] : i \in 1..Len(Weekdays)} |->
        IF weekday = "Sunday" THEN <<PoolFamily>> ELSE <<>>]

SignatureOf(documents) ==
    get_pdf_list_signature(documents, search_terms_of(Name_Balboa))

\* the answers the selection oracle gives in a run, the same to every call
CacheAnswers ==
    {Resp("text", Txt_NONE), Resp("text", Txt_1), Resp("text", Txt_maybe),
     Resp("raise", <<>>)}

NoOracleCalls == [select |-> 0, extract |-> 0, verify |-> 0]

InitCache ==
    /\ ExtractIdle
    /\ PoolIdle
    /\ PhantomIdle
    /\ DeriveIdle
    /\ FuncIdle
    /\ c_pc = "check"
    /\ c_force \in BOOLEAN
    /\ c_documents \in CachePages
    /\ c_file \in {Absent}
                    \cup {Entry(SignatureOf(page), data) :
                            page \in CachePages,
                            data \in {None, ScheduleEarlier}}
    /\ c_cache = Absent
    /\ c_return = Pending
    /\ c_calls = NoOracleCalls
    /\ c_writes = 0
    /\ c_prev = [ran |-> FALSE, signature |-> <<>>, cached_none |-> FALSE]

\* the run returns
CacheReturns(value) ==
    /\ c_return' = value
    /\ c_pc' = "done"

\* cache[pool_name] = entry; save_cache(cache): save_cache catches its own
\* exceptions, and the file is then as it was
CacheSave(entry) ==
    /\ c_file' \in {entry, c_file}
    /\ c_writes' = c_writes + 1

\* the documents are fetched, the cache is loaded and tested: a page
\* without documents ends the run, a hit returns the cached schedule
CacheCheck ==
    /\ c_pc = "check"
    /\ IF c_documents = <<>>
       THEN /\ CacheReturns(None)
            /\ UNCHANGED c_cache
       ELSE \E loaded \in {c_file, Absent} :
                /\ c_cache' = loaded
                /\ IF cache_hit(c_force, loaded, SignatureOf(c_documents))
                   THEN CacheReturns(Returned(loaded.schedule_data))
                   ELSE /\ c_pc' = "select"
                        /\ UNCHANGED c_return
    /\ UNCHANGED <<c_force, c_documents, c_file, c_calls, c_writes, c_prev>>
    /\ UNCHANGED <<xvars, pvars, dvars, fvars, gvars>>

\* select_schedule_pdf; without a selected document the empty result is
\* written to the cache under the current signature
CacheSelect ==
    /\ c_pc = "select"
    /\ \E answer \in CacheAnswers :
        LET selected_pdf ==
                select_schedule_pdf(
                    schedule_docs_of(c_documents, Name_Balboa, POOLS_LIST),
                    [k \in 1..3 |-> answer])
        IN  /\ c_calls' = [c_calls EXCEPT !.select = @ + selected_pdf.calls]
            /\ IF selected_pdf.value = None
               THEN /\ CacheSave(Entry(SignatureOf(c_documents), None))
                    /\ CacheReturns(None)
               ELSE /\ c_pc' = "parse"
                    /\ UNCHANGED <<c_file, c_writes, c_return>>
    /\ UNCHANGED <<c_force, c_documents, c_cache, c_prev>>
    /\ UNCHANGED <<xvars, pvars, dvars, fvars, gvars>>

\* the download and PASS 1 to 6: a failed download returns None before any
\* oracle call, a failure in a pass returns None after some, and a schedule
\* is written to the cache under the current signature and returned
CacheParse ==
    /\ c_pc = "parse"
    /\ \/ /\ CacheReturns(None)
          /\ UNCHANGED <<c_file, c_writes, c_calls>>
       \/ /\ \E queries \in 0..1 :
                c_calls' = [c_calls EXCEPT !.extract = 1, !.verify = queries]
          /\ \/ /\ CacheReturns(None)
                /\ UNCHANGED <<c_file, c_writes>>
             \/ /\ CacheSave(Entry(SignatureOf(c_documents), ScheduleParsed))
                /\ CacheReturns(Returned(ScheduleParsed))
    /\ UNCHANGED <<c_force, c_documents, c_cache, c_prev>>
    /\ UNCHANGED <<xvars, pvars, dvars, fvars, gvars>>

\* a later run of get_pool_schedule_from_pdf for the pool: it finds the cache
\* file as the run before left it
CacheRunAgain ==
    /\ c_pc = "done"
    /\ c_prev' = [ran |-> TRUE,
                  signature |-> SignatureOf(c_documents),
                  cached_none |->
                      /\ c_writes = 1
                      /\ c_return = None
                      /\ c_file = Entry(SignatureOf(c_documents), None)]
    /\ c_pc' = "check"
    /\ c_force' \in BOOLEAN
    /\ c_documents' \in CachePages
    /\ c_cache' = Absent
    /\ c_return' = Pending
    /\ c_calls' = NoOracleCalls
    /\ c_writes' = 0
    /\ UNCHANGED c_file
    /\ UNCHANGED <<xvars, pvars, dvars, fvars, gvars>>

NextCache ==
    \/ CacheCheck
    \/ CacheSelect
    \/ CacheParse
    \/ CacheRunAgain

SpecCache == InitCache /\ [][NextCache]_vars

----------------------------------------------------------------------------
(* The secret swim section of main.py *)

\* a SwimSlot of main.py, of one pool; start and end are times of day
CatalogSlot(weekday, start, end, note) ==
    [weekday |-> weekday, start |-> start, end |-> end, note |-> note]

CatalogDays == {"Mon", "Tue"}

\* OrderedCatalog.make_deletion_marks
make_deletion_marks(catalog) ==
    [weekday \in CatalogDays |-> [i \in 1..Len(catalog[weekday]) |-> FALSE]]

\* OrderedCatalog.mark_conflicting_lap_swim: the slots of swim_slot's weekday
\* whose interval holds swim_slot's start (a test no start passes) or its end
\* are marked
mark_conflicting_lap_swim(catalog, deletion_marks, swim_slot) ==
    LET same_day_slots == catalog[swim_slot.weekday]
        hit(catalog_slot) ==
            \/ /\ swim_slot.start >= catalog_slot.start
               /\ swim_slot.start < catalog_slot.start
            \/ /\ swim_slot.end > catalog_slot.start
               /\ swim_slot.end <= catalog_slot.end
    IN  [deletion_marks EXCEPT ![swim_slot.weekday] =
            [i \in 1..Len(same_day_slots) |->
                IF hit(same_day_slots[i]) THEN TRUE ELSE @[i]]]

\* for slot in slots: mark_conflicting_lap_swim(slot)
RECURSIVE MarkEach(_, _, _)
MarkEach(catalog, deletion_marks, slots) ==
    IF slots = <<>> THEN deletion_marks
    ELSE MarkEach(catalog,
                  mark_conflicting_lap_swim(catalog, deletion_marks, slots[1]),
                  Tail(slots))

\* OrderedCatalog.get_slot_list
get_slot_list(catalog) == catalog["Mon"] \o catalog["Tue"]

\* secret_swim_slots: the statement lap_swim_catalog.delete_conflicting_lap_swim
\* before it names the method without calling it, so the lap swim catalog is
\* as it was
secret_swim_slots(catalog, deletion_marks) == get_slot_list(catalog)

\* OrderedCatalog.add for each slot
RECURSIVE AddEach(_, _)
AddEach(catalog, slots) ==
    IF slots = <<>> THEN catalog
    ELSE AddEach([catalog EXCEPT ![slots[1].weekday] = Append(@, slots[1])],
                 Tail(slots))

\* times of day and the slots between them
LastTime == 4
Spans == {<<s, e>> \in (1..LastTime) \X (1..LastTime) : s < e}
MaxLaps == 2
Note_Secret == "Parent Child Swim on Steps"
Note_Family == "Family Swim"

\* the lap swims of Monday, sorted by start as sort_all leaves them
LapLists ==
    {laps \in UNION {[1..n -> {CatalogSlot("Mon", p[1], p[2], Note_Secret) :
                                    p \in Spans}] : n \in 0..MaxLaps} :
        \A i \in 1..(Len(laps) - 1) : laps[i].start <= laps[i + 1].start}

\* at most one slot of another activity and one family swim, on either day
OtherLists(note) ==
    {<<>>} \cup {<<CatalogSlot(weekday, p[1], p[2], note)>> :
                    weekday \in CatalogDays, p \in Spans}

InitCatalog ==
    /\ ExtractIdle
    /\ PoolIdle
    /\ CacheIdle
    /\ PhantomIdle
    /\ DeriveIdle
    /\ f_pc = "catalog"
    /\ f_in \in [lap_swim : LapLists,
                 non_lap_swim : OtherLists(""),
                 family_swim : OtherLists(Note_Family)]
    /\ f_out = <<>>

\* the marks are made, the other activities and the family swims mark their
\* conflicts, and the slots of the lap swim catalog are added to the
\* ordered catalog
AddSecretSwim ==
    /\ f_pc = "catalog"
    /\ LET lap_swim_catalog ==
               [weekday \in CatalogDays |->
                   IF weekday = "Mon" THEN f_in.lap_swim ELSE <<>>]
           ordered_catalog ==
               [weekday \in CatalogDays |->
                   SelectSeq(f_in.family_swim,
                             LAMBDA slot : slot.weekday = weekday)]
           deletion_marks ==
               MarkEach(lap_swim_catalog,
                        MarkEach(lap_swim_catalog,
                                 make_deletion_marks(lap_swim_catalog),
                                 f_in.non_lap_swim),
                        get_slot_list(ordered_catalog))
       IN  f_out' = [deletion_marks |-> deletion_marks,
                     ordered_catalog |->
                         AddEach(ordered_catalog,
                                 secret_swim_slots(lap_swim_catalog,
                                                   deletion_marks))]
    /\ f_pc' = "added"
    /\ UNCHANGED <<f_in, xvars, pvars, dvars, gvars, cvars>>

NextCatalog == AddSecretSwim

SpecCatalog == InitCatalog /\ [][NextCatalog]_vars

----------------------------------------------------------------------------
(* extract_lap_swim_from_raw and extract_all_activities_from_raw *)

\* raw_schedule.get(day, [])
activities_of(raw, weekday) ==
    IF weekday \in DOMAIN raw THEN raw[weekday] ELSE <<>>

\* the slot extract_lap_swim_from_raw appends for a lap swim
LapSlot(pool_name, weekday, activity) ==
    [pool |-> pool_name, weekday |-> weekday, start |-> activity.start,
     end |-> activity.end, note |-> "Lap Swim"]

\* the slot extract_all_activities_from_raw appends for another activity
ActivitySlot(activity) ==
    [start |-> activity.start, end |-> activity.end,
     activity |-> activity.activity]

\* the loop over the activities of one day that keeps the lap swims
RECURSIVE lap_swim_of_day(_, _, _)
lap_swim_of_day(pool_name, weekday, activities) ==
    IF activities = <<>> THEN <<>>
    ELSE (IF IsLapSwim(Head(activities))
          THEN <<LapSlot(pool_name, weekday, Head(activities))>>
          ELSE <<>>)
         \o lap_swim_of_day(pool_name, weekday, Tail(activities))

extract_lap_swim_from_raw(raw, pool_name) ==
    [weekday \in {Weekdays[i] : i \in 1..Len(Weekdays)} |->
        lap_swim_of_day(pool_name, weekday,
                        activities_of(raw, weekday))]

\* the loop over the activities of one day that keeps all but the lap swims
RECURSIVE other_activities_of_day(_)
other_activities_of_day(activities) ==
    IF activities = <<>> THEN <<>>
    ELSE (IF ~IsLapSwim(Head(activities))
          THEN <<ActivitySlot(Head(activities))>>
          ELSE <<>>)
         \o other_activities_of_day(Tail(activities))

\* extract_all_activities_from_raw without the test on the name
extract_all_activities_from_raw_all(raw) ==
    [weekday \in {Weekdays[i] : i \in 1..Len(Weekdays)} |->
        [i \in 1..Len(activities_of(raw, weekday)) |->
            ActivitySlot(activities_of(raw, weekday)[i])]]

extract_all_activities_from_raw(raw) ==
    [weekday \in {Weekdays[i] : i \in 1..Len(Weekdays)} |->
        other_activities_of_day(activities_of(raw, weekday))]

\* raw schedules with activities on Saturday and Monday, the other weekdays
\* empty or missing
PartitionSchedules ==
    {[weekday \in days |->
        CASE weekday = "Saturday" -> saturday
          [] weekday = "Monday" -> monday
          [] OTHER -> <<>>] :
     saturday \in UNION {[1..n -> {RecA, RecAu, RecB, ActSeniorLap, ActFamily}]
                            : n \in 0..MaxActs},
     monday \in UNION {[1..n -> {RecA, RecAu, RecB, ActSeniorLap, ActFamily}]
                            : n \in 0..MaxActs},
     days \in {{Weekdays[i] : i \in 1..Len(Weekdays)},
               {"Saturday", "Monday"}}}

InitPartition ==
    /\ ExtractIdle
    /\ PoolIdle
    /\ CacheIdle
    /\ PhantomIdle
    /\ DeriveIdle
    /\ f_pc = "raw"
    /\ f_in \in [raw_schedule : PartitionSchedules,
                 pool_name : {"Balboa Pool"}]
    /\ f_out = <<>>

\* PASS 3 and PASS 4 of get_pool_schedule_from_pdf
ExtractLapAndOthers ==
    /\ f_pc = "raw"
    /\ f_out' = [lap_swim_data |->
                    extract_lap_swim_from_raw(f_in.raw_schedule,
                                              f_in.pool_name),
                 all_activities_data |->
                    extract_all_activities_from_raw(f_in.raw_schedule)]
    /\ f_pc' = "extracted"
    /\ UNCHANGED <<f_in, xvars, pvars, dvars, gvars, cvars>>

NextPartition == ExtractLapAndOthers

SpecPartition == InitPartition /\ [][NextPartition]_vars

----------------------------------------------------------------------------
(* Claims about the consensus extractor *)

\* pick_best_of_three has run on the three attempts in extractions: it
\* raised (pc = "done", result = None) or stored its choice under the
\* weekday before the one `day` now names
AfterPick == Len(extractions) = 3 /\ pc # "runs"
PickReturned == AfterPick /\ failure = "none"
Picked == raw_schedule[Weekdays[day - 1]]
AttemptSlots(i) == get_time_slots(extractions[i])
SomeTwoAgree ==
    \/ AttemptSlots(1) = AttemptSlots(2)
    \/ AttemptSlots(1) = AttemptSlots(3)
    \/ AttemptSlots(2) = AttemptSlots(3)

\* C1: when two of the three attempts have equal slot sets, the result is
\* the lower-index attempt of the matching pair (attempt 1 if it matches
\* attempt 2 or 3, otherwise attempt 2), its slot set is the one the pair
\* shares, and no arbitration query is sent.
C1_MajorityPicksLowerIndex ==
    (AfterPick /\ SomeTwoAgree) =>
        /\ failure = "none"
        /\ oracle_calls.arbitrate = 0
        /\ arb_response = NoResponse
        /\ Picked = IF \/ AttemptSlots(1) = AttemptSlots(2)
                       \/ AttemptSlots(1) = AttemptSlots(3)
                    THEN extractions[1]
                    ELSE extractions[2]
        /\ \E i, j \in 1..3 :
              /\ i # j
              /\ AttemptSlots(i) = AttemptSlots(j)
              /\ get_time_slots(Picked) = AttemptSlots(i)

\* attempts 2 and 3 agree on the slots, differ as lists, and attempt 1
\* disagrees
C1_Witness ==
    /\ PickReturned
    /\ AttemptSlots(2) = AttemptSlots(3)
    /\ extractions[2] # extractions[3]
    /\ AttemptSlots(1) # AttemptSlots(2)
    /\ Picked = extractions[2]

\* C2: when the three slot sets are pairwise distinct, exactly one
\* arbitration query is sent, and if its response parses the day's list is
\* exactly the parsed response.
C2_ArbitrationOnceAndReturned ==
    (AfterPick /\ ~SomeTwoAgree) =>
        /\ oracle_calls.arbitrate = 1
        /\ arb_response # NoResponse
        /\ arb_response.kind = "json" =>
              (failure = "none" /\ Picked = arb_response.value)

\* the arbitration answer parsed to a list that is none of the attempts
C2_Witness ==
    /\ PickReturned
    /\ ~SomeTwoAgree
    /\ arb_response.kind = "json"
    /\ \A i \in 1..3 : arb_response.value # extractions[i]
    /\ Picked = arb_response.value

\* C3: when the arbitration response is not parseable, the result is the
\* attempt with the greatest number of records, the lowest index among
\* ties, and no further oracle call is made.
C3_FallbackToLongest ==
    (AfterPick /\ arb_response.kind \in {"empty", "garbage"}) =>
        /\ failure = "none"
        /\ oracle_calls.arbitrate = 1
        /\ \E i \in 1..3 :
              /\ Picked = extractions[i]
              /\ \A j \in 1..3 : Len(extractions[j]) <= Len(extractions[i])
              /\ \A j \in 1..(i - 1) :
                    Len(extractions[j]) < Len(extractions[i])

\* unparseable arbitration with attempts 2 and 3 tied for the longest
C3_Witness ==
    /\ PickReturned
    /\ arb_response.kind = "garbage"
    /\ Len(extractions[1]) < Len(extractions[2])
    /\ Len(extractions[2]) = Len(extractions[3])
    /\ Picked = extractions[2]
    /\ Picked # extractions[3]

\* C4: an oracle call that raises for one weekday does not fail the
\* facility: extract_raw_schedule still returns the weekly schedule.
C4_OracleFailureRecovered ==
    (pc = "done" /\ failure = "oracle") =>
        /\ result.kind = "returned"
        /\ DOMAIN result.value = {Weekdays[i] : i \in 1..Len(Weekdays)}

\* C5: a returned schedule has an entry for each of the seven weekdays, and
\* a weekday whose three attempts are all empty is recorded as the empty
\* list without any arbitration query.
C5_SevenDaysAndClosedDay ==
    /\ result.kind = "returned" =>
          DOMAIN result.value = {Weekdays[i] : i \in 1..Len(Weekdays)}
    /\ (AfterPick /\ \A i \in 1..3 : extractions[i] = <<>>) =>
          /\ failure = "none"
          /\ Picked = <<>>
          /\ oracle_calls.arbitrate = 0
          /\ result.kind = "returned" => result.value[Weekdays[day - 1]] = <<>>

\* a schedule was returned whose last weekday is closed and whose first is
\* not
C5_Witness ==
    /\ result.kind = "returned"
    /\ \A i \in 1..3 : extractions[i] = <<>>
    /\ result.value["Saturday"] = <<>>
    /\ result.value["Sunday"] # <<>>

----------------------------------------------------------------------------
(* Claims about the phantom detector *)

AllWeekdays == {Weekdays[i] : i \in 1..Len(Weekdays)}

\* the case-insensitive keys verified negative for a day
NegativeKeys(d) ==
    {UpperKey(verify_log[k].slot) :
        k \in {n \in 1..Len(verify_log) :
                 verify_log[n].day = d /\ verify_log[n].answer = "NO"}}

\* the case-insensitive keys verified affirmative for a day
AffirmativeKeys(d) ==
    {UpperKey(verify_log[k].slot) :
        k \in {n \in 1..Len(verify_log) :
                 verify_log[n].day = d /\ verify_log[n].answer = "YES"}}

\* out holds exactly the records of in whose index is in keep, in order
IsSelection(out, in, keep) ==
    /\ Len(out) = Cardinality(keep)
    /\ \A i \in keep : out[Cardinality({j \in keep : j <= i})] = in[i]

C9_Removal ==
    ph_result.kind = "returned" =>
        /\ DOMAIN ph_result.value = DOMAIN schedule_data
        /\ \A d \in AllWeekdays :
              /\ IsSelection(ph_result.value[d], schedule_data[d],
                    {i \in 1..Len(schedule_data[d]) :
                        UpperKey(schedule_data[d][i]) \notin NegativeKeys(d)})
              /\ NegativeKeys(d) = {} =>
                    ph_result.value[d] = schedule_data[d]

\* C9: a record is removed only from the day on which a verification of its
\* case-insensitive key was negative; every other day's list comes back
\* with the same records in the same order; the input schedule is never
\* modified.
C9_RemovedOnlyFromNegativeDay ==
    /\ []C9_Removal
    /\ [][schedule_data' = schedule_data]_vars

\* a record identical up to letter case on two adjacent days, verified
\* negative on the second and affirmative on the first: the second day lost
\* it, the first day is intact
C9_Witness ==
    /\ ph_result.kind = "returned"
    /\ \E i \in 1..(Len(Weekdays) - 1) :
          LET d1 == Weekdays[i]
              d2 == Weekdays[i + 1]
          IN  /\ \E k \in NegativeKeys(d2) : k \in AffirmativeKeys(d1)
              /\ NegativeKeys(d1) = {}
              /\ schedule_data[d1] # <<>>
              /\ ph_result.value[d1] = schedule_data[d1]
              /\ Len(ph_result.value[d2]) < Len(schedule_data[d2])
              /\ \A n \in 1..Len(ph_result.value[d2]) :
                    UpperKey(ph_result.value[d2][n]) \notin NegativeKeys(d2)

\* C10: during one pass at most one verification query is sent per (day,
\* case-insensitive record key).
C10_OneQueryPerKey ==
    \A i, j \in 1..Len(verify_log) :
        (i # j /\ verify_log[i].day = verify_log[j].day) =>
            UpperKey(verify_log[i].slot) # UpperKey(verify_log[j].slot)

----------------------------------------------------------------------------
(* Claims about the secret swim calculators *)

\* the (start, end) pair of a record or of a derived window
Interval(r) == <<r.start, r.end>>

\* the indices of the records of acts, other than i, that overlap record i
Overlapping(acts, i) ==
    {j \in 1..Len(acts) : j # i /\ times_overlap(acts[i], acts[j])}

\* C6: for every day and every lap-swim record on it, exactly one window
\* equal to the record's whole interval, with the facility's note, is
\* emitted if no other record of the day overlaps it, and nothing is emitted
\* for it if any other record of the day overlaps it.
C6_WholeWindowOrNothing ==
    d_pc = "balboa" =>
        \A d \in AllWeekdays :
            LET acts == d_raw[d]
                emit == {i \in 1..Len(acts) :
                           IsLapSwim(acts[i]) /\ Overlapping(acts, i) = {}}
            IN  /\ Len(d_balboa[d]) = Cardinality(emit)
                /\ \A i \in emit :
                      d_balboa[d][Cardinality({j \in emit : j <= i})] =
                          SecretSwim("Balboa Pool", d, acts[i], NoteOnSteps)

\* the records of acts that qualify for a small pool window: they do not
\* conflict with the small pool and no other record both conflicts with it
\* and overlaps them
Qualifying(acts, conflicts) ==
    {i \in 1..Len(acts) :
        /\ ~conflicts[i]
        /\ \A j \in Overlapping(acts, i) : ~conflicts[j]}

\* a location tag that is empty or only whitespace
BlankTag(tag) == \A i \in 1..Len(tag) : tag[i] = " "

\* C7: for each day the windows of calculate_garfield_secret_swim are exactly
\* the distinct (start, end) intervals of the qualifying records, each once;
\* the interval of a record with an empty location tag is never a window,
\* and a record tagged "(4)" that no conflicting record overlaps yields a
\* window equal to its own interval.
C7_GapFilling ==
    d_pc = "garfield" =>
        \A d \in AllWeekdays :
            LET acts == d_raw[d]
                out == d_garfield[d]
                conflicts == [i \in 1..Len(acts) |->
                                \/ BlankTag(acts[i].pool_area)
                                \/ StrContains(StrLower(acts[i].pool_area),
                                               Str_small_pool)]
                qualifying == Qualifying(acts, conflicts)
            IN  /\ {Interval(out[k]) : k \in 1..Len(out)} =
                      {Interval(acts[i]) : i \in qualifying}
                /\ \A k, l \in 1..Len(out) :
                      k # l => Interval(out[k]) # Interval(out[l])
                /\ \A k \in 1..Len(out) :
                      /\ out[k].weekday = d
                      /\ out[k].note = NoteInSmallPool
                /\ \A i \in 1..Len(acts) :
                      acts[i].pool_area = Str_Empty =>
                          \A k \in 1..Len(out) :
                              Interval(out[k]) # Interval(acts[i])
                /\ \A i \in 1..Len(acts) :
                      (/\ acts[i].pool_area = Str_Lanes4
                       /\ \A j \in Overlapping(acts, i) : ~conflicts[j]) =>
                          \E k \in 1..Len(out) :
                              Interval(out[k]) = Interval(acts[i])

\* two qualifying records of one day with the same (start, end) gave one
\* window
C7_Witness ==
    /\ d_pc = "garfield"
    /\ \E d \in AllWeekdays :
          /\ Len(d_raw[d]) = 2
          /\ d_raw[d][1] # d_raw[d][2]
          /\ Interval(d_raw[d][1]) = Interval(d_raw[d][2])
          /\ d_raw[d][1].pool_area = Str_Lanes4
          /\ Len(d_garfield[d]) = 1
          /\ Interval(d_garfield[d][1]) = Interval(d_raw[d][1])

\* what the location tag mentions, letter case and surrounding whitespace
\* ignored
MentionsSmallPool(tag) == StrContains(StrLower(tag), Str_small_pool)
MentionsMainPool(tag) == StrContains(StrLower(tag), Str_main_pool)

\* C8: the classification follows the first matching rule of: small pool
\* mentioned -> conflicts; main pool mentioned -> no conflict; parenthesized
\* lane count -> no conflict; empty or whitespace -> conflicts; any other
\* tag -> no conflict. A tag naming both pools conflicts.
C8_FirstMatchingRule ==
    d_pc = "classified" =>
        \A d \in AllWeekdays : \A i \in 1..Len(d_raw[d]) :
            LET tag == d_raw[d][i].pool_area
                small == MentionsSmallPool(tag)
                main == MentionsMainPool(tag)
                lanes == HasLaneCount(tag)
                blank == BlankTag(tag)
                conflicts == d_class[d][i]
            IN  /\ small => conflicts
                /\ (~small /\ main) => ~conflicts
                /\ (~small /\ ~main /\ lanes) => ~conflicts
                /\ (~small /\ ~main /\ ~lanes /\ blank) => conflicts
                /\ (~small /\ ~main /\ ~lanes /\ ~blank) => ~conflicts
                /\ (small /\ main) => conflicts

\* a record whose tag names both pools was classified as conflicting, next
\* to a record with a whitespace tag
C8_Witness ==
    /\ d_pc = "classified"
    /\ \E d \in AllWeekdays : \E i, j \in 1..Len(d_raw[d]) :
          /\ MentionsSmallPool(d_raw[d][i].pool_area)
          /\ MentionsMainPool(d_raw[d][i].pool_area)
          /\ d_class[d][i]
          /\ d_raw[d][j].pool_area = Str_Blank
          /\ d_class[d][j]

----------------------------------------------------------------------------
(* Claims about find_suspicious_duplicates *)

\* find_suspicious_duplicates has run on schedule_data
SuspiciousFound == ph_pc # "start" /\ ph_pc # "idle"

\* some record of day d has the case-insensitive key of slot
HasKey(d, slot) ==
    \E k \in 1..Len(schedule_data[d]) :
        UpperKey(schedule_data[d][k]) = UpperKey(slot)

\* C11: a record is flagged only when a record with the same
\* case-insensitive key is on an immediately adjacent day of the fixed
\* Sunday..Saturday order: the first and last day have one neighbour, there
\* is no wrap-around from Saturday to Sunday, and records on non-adjacent
\* days are never flagged for one another.
C11_FlaggedOnlyForAdjacentDay ==
    SuspiciousFound =>
        \A n \in 1..Len(suspicious) :
            LET e == suspicious[n]
                i == DayIndex(e.day)
                a == DayIndex(e.adj_day)
            IN  /\ a = i - 1 \/ a = i + 1
                /\ e.day = "Sunday" => e.adj_day = "Monday"
                /\ e.day = "Saturday" => e.adj_day = "Friday"
                /\ HasKey(e.adj_day, e.slot)
                /\ \E k \in 1..Len(schedule_data[e.day]) :
                      schedule_data[e.day][k] = e.slot

\* Saturday, Sunday and Monday hold the same record: Sunday's is flagged for
\* Monday, Saturday's is not flagged
C11_Witness ==
    /\ SuspiciousFound
    /\ schedule_data["Saturday"] # <<>>
    /\ HasKey("Sunday", schedule_data["Saturday"][1])
    /\ HasKey("Monday", schedule_data["Saturday"][1])
    /\ schedule_data["Friday"] = <<>>
    /\ \E n \in 1..Len(suspicious) :
          suspicious[n].day = "Sunday" /\ suspicious[n].adj_day = "Monday"
    /\ \A n \in 1..Len(suspicious) : suspicious[n].day # "Saturday"

----------------------------------------------------------------------------
(* Claims about the gap computation *)

\* minutes since midnight of the clock strings that occur here, by table
ClockMinutes(s) ==
    CASE s = Str_9_00AM -> 540
      [] s = Str_09_00am -> 540
      [] s = Str_9_00_AM -> 540
      [] s = Str_10_00AM -> 600
      [] s = Str_11_00AM -> 660
      [] s = NOON -> 720
      [] s = Str_12_00PM -> 720
      [] s = Str_1_00PM -> 780
      [] s = Str_2_00PM -> 840
      [] s = Str_6_00AM -> 360
      [] s = Str_6_30AM -> 390
      [] s = Str_6_45AM -> 405
      [] s = Str_7_00AM -> 420
      [] s = Str_7_30AM -> 450
      [] s = Str_8_00AM -> 480

\* (start, end) in minutes of a pair of clock strings
MinutePair(p) == <<ClockMinutes(p[1]), ClockMinutes(p[2])>>

\* the minutes from the earliest to the latest clock string
SweepMinutes ==
    ClockMinutes(SweepTimes[1])..(ClockMinutes(SweepTimes[Len(SweepTimes)]) - 1)

\* minute t lies in the half-open interval p
Within(t, p) == p[1] <= t /\ t < p[2]

\* the conflicts handed to add_secret_swim_times, in minutes
SweepConflicts ==
    {MinutePair(f_in.family[i]) : i \in 1..Len(f_in.family)}

\* the sub-intervals add_secret_swim_times appended for the lap swim slot,
\* in minutes
SweepEmitted ==
    LET out == f_out[f_in.weekday]
        n == Len(f_in.family)
    IN  [k \in 1..(Len(out) - n) |->
            <<ClockMinutes(out[n + k].start), ClockMinutes(out[n + k].end)>>]

\* C12: for a candidate and conflicts that each have start < end, the
\* sub-intervals returned are ascending, pairwise disjoint, of positive
\* length, inside the candidate, and cover exactly the candidate minus the
\* conflicts; no conflict gives the candidate itself, a conflict that covers
\* the candidate gives nothing.
C12_SweepIsExactDifference ==
    (/\ f_pc = "returned"
     /\ \A c \in SweepConflicts : c[1] < c[2]) =>
        LET cand == MinutePair(f_in.lap_slot)
            emitted == SweepEmitted
        IN  /\ \A k \in 1..Len(emitted) :
                  /\ emitted[k][1] < emitted[k][2]
                  /\ cand[1] <= emitted[k][1]
                  /\ emitted[k][2] <= cand[2]
            /\ \A k \in 1..(Len(emitted) - 1) :
                  emitted[k][2] <= emitted[k + 1][1]
            /\ \A t \in SweepMinutes :
                  (\E k \in 1..Len(emitted) : Within(t, emitted[k])) <=>
                      (/\ Within(t, cand)
                       /\ \A c \in SweepConflicts : ~Within(t, c))
            /\ SweepConflicts = {} => emitted = <<cand>>
            /\ (\E c \in SweepConflicts : c[1] <= cand[1] /\ cand[2] <= c[2])
                  => emitted = <<>>

\* two conflicts given out of order inside the candidate left three
\* sub-intervals
C12_Witness ==
    /\ f_pc = "returned"
    /\ Len(f_in.family) = 2
    /\ \A c \in SweepConflicts : c[1] < c[2]
    /\ MinutePair(f_in.family[2])[2] < MinutePair(f_in.family[1])[1]
    /\ Len(SweepEmitted) = 3

\* C14: a conflict with end <= start that reaches the sweep is rejected with
\* an error: add_secret_swim_times does not return sub-intervals computed
\* from it.
C14_InvalidConflictRejected ==
    ~(/\ f_pc = "returned"
      /\ \E c \in SweepConflicts :
            LET cand == MinutePair(f_in.lap_slot)
            IN  /\ c[2] <= c[1]
                /\ ~(cand[2] <= c[1] \/ cand[1] >= c[2]))

----------------------------------------------------------------------------
(* Claims about times_overlap *)

\* C13: times_overlap(a, b) is true exactly when a.start < b.end and
\* b.start < a.end in minutes since midnight; it is symmetric, and intervals
\* that only touch at a boundary do not overlap.
C13_OverlapIsHalfOpen ==
    d_pc = "classified" =>
        \A d \in AllWeekdays : \A i, j \in 1..Len(d_raw[d]) :
            LET a == MinutePair(Interval(d_raw[d][i]))
                b == MinutePair(Interval(d_raw[d][j]))
            IN  /\ d_overlap[d][i][j] <=> (a[1] < b[2] /\ b[1] < a[2])
                /\ d_overlap[d][i][j] <=> d_overlap[d][j][i]
                /\ a[2] = b[1] => ~d_overlap[d][i][j]

\* a record that starts when another ends was found not to overlap it, in
\* either order
C13_Witness ==
    /\ d_pc = "classified"
    /\ \E d \in AllWeekdays : \E i, j \in 1..Len(d_raw[d]) :
          /\ ClockMinutes(d_raw[d][i].end) = ClockMinutes(d_raw[d][j].start)
          /\ ~d_overlap[d][i][j]
          /\ ~d_overlap[d][j][i]
          /\ d_overlap[d][i][i]

----------------------------------------------------------------------------
(* Claims about combine_and_sort_schedules *)

\* the day's family swim slots followed by its secret swim slots
Concatenated == CombineFamily \o CombineSecret

\* where a stable sort by start time puts the i-th record of s: after the
\* records that start earlier and after the earlier records that start at
\* the same time
SortedPosition(s, i) ==
    Cardinality({j \in 1..Len(s) :
        \/ ClockMinutes(s[j].start) < ClockMinutes(s[i].start)
        \/ (ClockMinutes(s[j].start) = ClockMinutes(s[i].start) /\ j <= i)})

\* C15: each weekday of the result is a permutation of the day's primary
\* records followed by its derived records, in ascending order of start
\* time; records with the same start keep their insertion order, so a
\* primary record precedes a derived record with the same start.
C15_StableSortedConcatenation ==
    f_pc = "returned" =>
        /\ DOMAIN f_out = AllWeekdays
        /\ \A d \in AllWeekdays : d # f_in.weekday => f_out[d] = <<>>
        /\ LET in == Concatenated
               out == f_out[f_in.weekday]
           IN  /\ Len(out) = Len(in)
               /\ \A i \in 1..Len(in) : out[SortedPosition(in, i)] = in[i]
               /\ \A k \in 1..(Len(out) - 1) :
                     ClockMinutes(out[k].start)
                         <= ClockMinutes(out[k + 1].start)
               /\ \A k, l \in 1..Len(out) :
                     (/\ out[k].note = NoteFamily
                      /\ out[l].note = NoteOnSteps
                      /\ ClockMinutes(out[k].start)
                            = ClockMinutes(out[l].start)) => k < l

\* a primary and a derived record with the same start, after a derived
\* record that starts later in the input: the result is reordered and the
\* primary record comes first
C15_Witness ==
    /\ f_pc = "returned"
    /\ Len(CombineFamily) = 2
    /\ Len(CombineSecret) = 2
    /\ f_out[f_in.weekday] # Concatenated
    /\ \E k \in 1..3 :
          /\ f_out[f_in.weekday][k].note = NoteFamily
          /\ f_out[f_in.weekday][k + 1].note = NoteOnSteps
          /\ f_out[f_in.weekday][k].start # f_out[f_in.weekday][k + 1].start
          /\ ClockMinutes(f_out[f_in.weekday][k].start)
                = ClockMinutes(f_out[f_in.weekday][k + 1].start)

----------------------------------------------------------------------------
(* Claims about time_to_minutes and minutes_to_time *)

\* C16: time_to_minutes(minutes_to_time(m)) = m for every m in 0..1439, the
\* string in between being canonical; minutes_to_time(time_to_minutes(s)) =
\* s for every canonical s; "09:00AM" maps to "9:00AM".
C16_RoundTrip ==
    /\ f_pc = "formatted" =>
          /\ f_out.minutes = f_in.value
          /\ f_out.text \in CanonicalStrings
    /\ (f_pc = "parsed" /\ f_in.value \in CanonicalStrings) =>
          f_out.text = f_in.value
    /\ (f_pc = "parsed" /\ f_in.value = Str_09_00AM) =>
          f_out.text = Str_9_00AM

\* the canonical string of midnight was parsed to 0 and formatted back
C16_Witness ==
    /\ f_pc = "parsed"
    /\ f_in.value = <<"1","2",":","0","0","A","M">>
    /\ f_out.minutes = 0
    /\ f_out.text = f_in.value

\* s, upper-cased and stripped, is NOON or one or two hour digits (1..12),
\* a colon, two minute digits (00..59) and AM or PM
IsClockShape(s) ==
    LET t == StrStrip(StrUpper(s))
    IN  \/ t = NOON
        \/ t \in CanonicalStrings
        \/ /\ Len(t) = 7
           /\ t[1] = "0"
           /\ Tail(t) \in CanonicalStrings

\* C17: time_to_minutes fails on every input that is not H:MM or HH:MM
\* followed by AM or PM, or NOON; it never returns minutes for such an input.
C17_MalformedTimeFails ==
    (f_pc = "parsed" /\ ~IsClockShape(f_in.value)) =>
        f_out.minutes = ValueError

----------------------------------------------------------------------------
(* Claims about get_time_slots *)

\* the (start, end) instants, in minutes, that the records of an attempt
\* denote
Instants(attempt) ==
    {MinutePair(Interval(attempt[i])) : i \in 1..Len(attempt)}

\* C18: two attempts whose records denote the same (start, end) instants in
\* different accepted formats (leading zero, letter case, internal
\* whitespace, NOON for 12:00PM) have equal slot sets, and two attempts that
\* differ in a genuine time have unequal slot sets.
C18_SlotsCompareInstants ==
    f_pc = "slots" =>
        (f_out.a = f_out.b <=> Instants(f_in.a) = Instants(f_in.b))

----------------------------------------------------------------------------
(* Claims about extract_single_day *)

\* an answer that is empty or does not parse to a list of records
Malformed(r) == r.kind \in {"empty", "garbage", "object"}

\* C19: an extraction response that is empty or not parseable as a record
\* list makes the attempt an empty list rather than an error:
\* extract_single_day returns [] for it, so that the attempt goes on to
\* pick_best_of_three.
C19_MalformedResponseIsEmptyAttempt ==
    (/\ f_pc \in {"returned", "raised"}
     /\ \/ Malformed(f_in.td)
        \/ f_in.td.kind = "json" /\ Malformed(f_in.bu)) =>
        /\ f_out.raised = "none"
        /\ f_out.value = <<>>

----------------------------------------------------------------------------
(* Claims about get_pool_schedule_from_pdf *)

\* an exception was raised during the run, or extract_raw_schedule gave up
PoolFailed == g_failure # "none"

\* C20: when a step of a facility's processing fails after extraction has
\* started (an oracle exception on a weekday, a verification failure, a
\* parse error), get_pool_schedule_from_pdf returns None, the weekdays
\* extracted so far are dropped as a unit, and the pool's cache entry stays
\* as it was before the run: a schedule is returned only by a run without a
\* failure that extracted all seven weekdays, and only such a run writes the
\* cache
C20_FailureDiscardsRun ==
    /\ PoolFailed =>
        /\ g_pc = "done"
        /\ g_return = None
        /\ g_cache = g_before
    /\ g_return.kind = "returned" =>
        /\ ~PoolFailed
        /\ DOMAIN g_raw = AllWeekdays
        /\ DOMAIN g_return.value = AllWeekdays
    /\ g_cache # g_before => g_return.kind = "returned"

\* an oracle exception on a later weekday, after a weekday with records was
\* extracted, for a pool that has an earlier cache entry
C20_Witness ==
    /\ g_pc = "done"
    /\ g_failure = "oracle"
    /\ BusyDays(g_raw) # {}
    /\ Cardinality(DOMAIN g_raw) < Len(Weekdays)
    /\ g_before = StaleEntry(g_pool)
    /\ g_return = None
    /\ g_cache = g_before

----------------------------------------------------------------------------
(* Claims about the order of the passes of get_pool_schedule_from_pdf *)

\* the windows of a weekly schedule that have the times of a removed record
\* on the record's day
WindowsFrom(weekly, removed) ==
    {p \in removed :
        /\ p.day \in DOMAIN weekly
        /\ \E k \in 1..Len(weekly[p.day]) :
            /\ weekly[p.day][k].start = p.slot.start
            /\ weekly[p.day][k].end = p.slot.end}

\* C21: the phantom pass starts only after all seven weekdays are extracted
\* and is over before the family filter and the derivation run: for Garfield
\* Pool no family or secret swim data exists and nothing is returned before
\* the pass is done, and no family, secret or returned window has the day
\* and times of a record the pass removed
C21_PhantomPassBeforeDerivation ==
    /\ g_phantoms.done => DOMAIN g_raw = AllWeekdays
    /\ (g_pool = "Garfield Pool" /\ ~g_phantoms.done) =>
        /\ g_family = <<>>
        /\ g_secret = <<>>
        /\ g_return.kind # "returned"
    /\ WindowsFrom(g_family, g_phantoms.removed) = {}
    /\ WindowsFrom(g_secret, g_phantoms.removed) = {}
    /\ g_return.kind = "returned" =>
        WindowsFrom(g_return.value, g_phantoms.removed) = {}

\* Garfield Pool: a family swim record on two adjacent days, the second
\* removed as a phantom, and the schedule returned with the first day's
\* window only
C21_Witness ==
    /\ g_pool = "Garfield Pool"
    /\ g_return.kind = "returned"
    /\ \E p \in g_phantoms.removed :
        /\ p.slot = PoolFamily
        /\ p.day = "Tuesday"
        /\ g_return.value["Tuesday"] = <<>>
        /\ Len(g_return.value["Monday"]) = 1

----------------------------------------------------------------------------
(* Claims about the number of oracle calls *)

\* C22: reconciling one weekday takes a bounded number of oracle calls: each
\* of the three extraction runs makes at most three, an arbitration call is
\* made at most once and only after the third run, so at most ten in all;
\* after pick_best_of_three no arbitration call was made when two slot sets
\* agree and exactly one when none agree
C22_BoundedOracleCalls ==
    /\ oracle_calls.extract <= 3 * (Len(extractions) + 1)
    /\ oracle_calls.extract <= 9
    /\ oracle_calls.arbitrate <= 1
    /\ oracle_calls.arbitrate = 1 => Len(extractions) = 3
    /\ oracle_calls.extract + oracle_calls.arbitrate <= 10
    /\ AfterPick =>
        oracle_calls.arbitrate = IF SomeTwoAgree THEN 0 ELSE 1

\* ten calls: every run needed its reconcile call and no two runs agreed
C22_Witness ==
    /\ PickReturned
    /\ oracle_calls.extract = 9
    /\ oracle_calls.arbitrate = 1
    /\ ~SomeTwoAgree

----------------------------------------------------------------------------
(* Claims about verify_slot_exists *)

\* the answer as verify_slot_exists looks at it: stripped, in capitals
Shown(answer) == StrUpper(StrStrip(answer))
MarkedYes(u) == StrContains(u, <<"*","*","Y","E","S">>)
MarkedNo(u) == StrContains(u, <<"*","*","N","O">>)
BeginsYes(u) == Len(u) >= 3 /\ SubSeq(u, 1, 3) = <<"Y","E","S">>
BeginsNo(u) == Len(u) >= 2 /\ SubSeq(u, 1, 2) = <<"N","O">>
WordYes(u) == StrContains(u, <<" ","Y","E","S"," ">>)

\* C23: the answer is affirmative iff it contains "**YES" or starts with
\* "YES", or else it neither contains "**NO" nor starts with "NO" and
\* contains " YES "; every other answer is negative
C23_AnswerToBoolean ==
    f_pc = "verified" =>
        LET u == Shown(f_in)
        IN  f_out = (\/ MarkedYes(u)
                     \/ BeginsYes(u)
                     \/ /\ ~MarkedNo(u)
                        /\ ~BeginsNo(u)
                        /\ WordYes(u))

\* an answer that starts with NO and holds a marked YES is affirmative
C23_Witness ==
    /\ f_pc = "verified"
    /\ BeginsNo(Shown(f_in))
    /\ MarkedYes(Shown(f_in))
    /\ f_out = TRUE

----------------------------------------------------------------------------
(* Claims about the selection of the schedule document *)

\* the candidates among the documents of the page, in page order
CandidatesOf(documents) ==
    SelectSeq(documents, LAMBDA d : d \in {Doc_Fall, Doc_Lower})

\* what an answer says: the word NONE, else its first number, else nothing
SaysNone(response) ==
    response.kind = "text" /\ response.value \in {Txt_NONE, Txt_NoneDot, Txt_1orNone}
FirstNumberOf(response) ==
    CASE response.value = Txt_1 -> 1
      [] response.value = Txt_2 -> 2
      [] response.value = Txt_3 -> 3
      [] response.value = Txt_0 -> 0
      [] response.value = Txt_2of3 -> 2
      [] OTHER -> -1

\* the answer ends the selection: NONE or an exception with nothing, a
\* valid index with the candidate at that index
Stops(response) == response.kind = "raise" \/ SaysNone(response)
Picks(response, candidates) ==
    /\ ~Stops(response)
    /\ FirstNumberOf(response) \in 1..Len(candidates)

\* C26: select_schedule_pdf asks the selection oracle at most three times;
\* the first answer that says NONE or raises ends it with None, the first
\* answer whose first number is a valid 1-based index ends it with exactly
\* the candidate at that index, and three answers without either end it
\* with None: never a document outside the candidates, never the first
\* candidate by default.
C26_SelectionOutcome ==
    f_pc = "selected" =>
        LET candidates == CandidatesOf(f_in.documents)
            decisive == {k \in 1..3 : Stops(f_in.responses[k])
                                       \/ Picks(f_in.responses[k], candidates)}
        IN  /\ f_out.calls <= 3
            /\ f_out.value.kind = "returned" =>
                    \E i \in 1..Len(candidates) :
                        f_out.value.value = candidates[i]
            /\ candidates = <<>> => f_out = Selection(None, 0)
            /\ candidates # <<>> /\ decisive = {} => f_out = Selection(None, 3)
            /\ candidates # <<>> /\ decisive # {} =>
                    LET k == CHOOSE d \in decisive : \A e \in decisive : d <= e
                        response == f_in.responses[k]
                    IN  /\ f_out.calls = k
                        /\ Stops(response) => f_out.value = None
                        /\ ~Stops(response) =>
                                f_out.value =
                                    Returned(candidates[FirstNumberOf(response)])

\* two answers without a valid index, then the second of two candidates
C26_Witness ==
    /\ f_pc = "selected"
    /\ f_in.documents = <<Doc_Fall, Doc_Lower>>
    /\ f_in.responses[1] = Resp("text", Txt_3)
    /\ f_in.responses[2] = Resp("text", Txt_maybe)
    /\ f_in.responses[3] = Resp("text", Txt_2of3)
    /\ f_out = Selection(Returned(Doc_Lower), 3)

----------------------------------------------------------------------------
(* Claims about the schedule cache *)

\* the sorted names of the pool's documents on each page
PageSignature(page) ==
    CASE page \in {<<>>, <<Doc_Rules>>} -> <<>>
      [] page = <<Doc_Fall>> -> <<Doc_Fall.name>>
      [] page = <<Doc_Other>> -> <<Doc_Other.name>>
      [] OTHER -> <<Doc_Fall.name, Doc_Lower.name>>

\* C24: when the run before found no applicable schedule document and left
\* the empty result in the cache under its signature, a run with the same
\* signature and force_refresh false that loads this entry makes no call to
\* the selection oracle.
C24_EmptyResultNotRetried ==
    (/\ c_prev.ran
     /\ c_prev.cached_none
     /\ c_prev.signature = PageSignature(c_documents)
     /\ c_cache = Entry(PageSignature(c_documents), None)
     /\ ~c_force)
        => c_calls.select = 0

\* the cache as this run found it holds a schedule under the signature of
\* the page
HoldsCurrentSchedule ==
    /\ c_pc \in {"select", "parse", "done"}
    /\ c_documents # <<>>
    /\ c_cache.present
    /\ c_cache.pdf_signature = PageSignature(c_documents)
    /\ c_cache.schedule_data # None

\* C25: with force_refresh false a run that finds a schedule in the cache
\* under the current signature returns that schedule, with no oracle call
\* of any kind and without writing the cache; with force_refresh true a
\* run that returns a schedule has extracted it anew and written it.
C25_CachedScheduleReturned ==
    /\ HoldsCurrentSchedule /\ ~c_force =>
            /\ c_pc = "done"
            /\ c_return = Returned(c_cache.schedule_data)
            /\ c_calls = NoOracleCalls
            /\ c_writes = 0
    /\ c_pc = "done" /\ c_force /\ c_return.kind = "returned" =>
            /\ c_return = Returned(ScheduleParsed)
            /\ c_calls.extract >= 1
            /\ c_writes = 1

\* the page lists the two schedules in another order than before and the
\* cached schedule is returned
C25_Witness ==
    /\ c_pc = "done"
    /\ ~c_force
    /\ c_documents = <<Doc_Lower, Doc_Fall>>
    /\ c_prev.ran
    /\ c_return = Returned(ScheduleEarlier)
    /\ c_calls = NoOracleCalls
    /\ c_file = Entry(<<Doc_Fall.name, Doc_Lower.name>>, ScheduleEarlier)

----------------------------------------------------------------------------
(* Claims about the catalog of main.py *)

\* two slots of a weekday share some time
SlotsOverlap(a, b) ==
    a.weekday = b.weekday /\ a.start < b.end /\ b.start < a.end

\* C27: a lap swim slot is in the ordered catalog as a secret swim only if
\* no slot of another activity and no family swim slot of its weekday
\* overlaps it.
C27_SecretSwimOnlyWhenFree ==
    f_pc = "added" =>
        \A weekday \in CatalogDays :
            \A i \in 1..Len(f_out.ordered_catalog[weekday]) :
                LET slot == f_out.ordered_catalog[weekday][i]
                IN  slot.note = Note_Secret =>
                        /\ \A k \in 1..Len(f_in.non_lap_swim) :
                                ~SlotsOverlap(slot, f_in.non_lap_swim[k])
                        /\ \A k \in 1..Len(f_in.family_swim) :
                                ~SlotsOverlap(slot, f_in.family_swim[k])

----------------------------------------------------------------------------
(* Claims about what the phantom pass removes *)

\* some verification query of day d was about exactly this record and was
\* answered affirmatively
OwnQueryAffirmative(d, slot) ==
    \E n \in 1..Len(verify_log) :
        /\ verify_log[n].day = d
        /\ verify_log[n].slot = slot
        /\ verify_log[n].answer = "YES"

\* how often a record is in a list
Occurrences(slots, slot) ==
    Cardinality({k \in 1..Len(slots) : slots[k] = slot})

\* C28: a record whose own verification query was answered affirmatively is
\* in the day's list of the result as often as in the input, whatever the
\* answers to the other queries.
C28_AffirmedRecordKept ==
    ph_result.kind = "returned" =>
        \A d \in AllWeekdays : \A i \in 1..Len(schedule_data[d]) :
            OwnQueryAffirmative(d, schedule_data[d][i]) =>
                Occurrences(ph_result.value[d], schedule_data[d][i])
                    = Occurrences(schedule_data[d], schedule_data[d][i])

\* a record with the case-insensitive key of slot is on a day next to d in
\* the order Sunday..Saturday
DuplicateNextDay(d, slot) ==
    \E a \in AllWeekdays :
        /\ DayIndex(a) - DayIndex(d) \in {-1, 1}
        /\ HasKey(a, slot)

\* C29: the records missing from a day of the result all have a record with
\* the same case-insensitive key on an adjacent day of the input; a record
\* without one is retained, and no verification query is about it.
C29_RemovedHaveAdjacentDuplicate ==
    /\ \A n \in 1..Len(verify_log) :
            DuplicateNextDay(verify_log[n].day, verify_log[n].slot)
    /\ ph_result.kind = "returned" =>
        \A d \in AllWeekdays :
            \E keep \in SUBSET (1..Len(schedule_data[d])) :
                /\ IsSelection(ph_result.value[d], schedule_data[d], keep)
                /\ \A i \in 1..Len(schedule_data[d]) :
                        ~DuplicateNextDay(d, schedule_data[d][i]) => i \in keep

\* a day holds a record found on the next day as well and one found on no
\* adjacent day: the first was verified negative and removed, the second is
\* still there and was never asked about
C29_Witness ==
    /\ ph_result.kind = "returned"
    /\ \E d \in AllWeekdays :
        /\ Len(schedule_data[d]) = 2
        /\ ~DuplicateNextDay(d, schedule_data[d][1])
        /\ DuplicateNextDay(d, schedule_data[d][2])
        /\ ph_result.value[d] = <<schedule_data[d][1]>>
        /\ \A n \in 1..Len(verify_log) :
                verify_log[n].slot # schedule_data[d][1]

----------------------------------------------------------------------------
(* Claims about the lap swim and activity extraction *)

\* the activity names that contain "lap swim" in any letter case
LapSwimNames == {Str_LapSwim, Str_LAPSWIM, Str_SeniorLapSwim}

\* out holds, in order, one slot for each record of in whose index is in
\* keep, with the record's start and end
IsProjection(out, in, keep) ==
    /\ Len(out) = Cardinality(keep)
    /\ \A i \in keep :
        LET slot == out[Cardinality({j \in keep : j <= i})]
        IN  slot.start = in[i].start /\ slot.end = in[i].end

C30_Partition ==
    f_pc = "extracted" =>
        \A weekday \in AllWeekdays :
            LET raw == IF weekday \in DOMAIN f_in.raw_schedule
                       THEN f_in.raw_schedule[weekday] ELSE <<>>
                laps == {i \in 1..Len(raw) : raw[i].activity \in LapSwimNames}
                lap_swim == f_out.lap_swim_data[weekday]
                others == f_out.all_activities_data[weekday]
            IN  /\ IsProjection(lap_swim, raw, laps)
                /\ IsProjection(others, raw, (1..Len(raw)) \ laps)
                /\ Len(lap_swim) + Len(others) = Len(raw)
                /\ \A k \in 1..Len(lap_swim) : lap_swim[k].weekday = weekday
                /\ \A i \in (1..Len(raw)) \ laps :
                        others[Cardinality({j \in (1..Len(raw)) \ laps :
                                                j <= i})].activity
                            = raw[i].activity

\* C30: every raw record of a weekday is in exactly one of the two outputs
\* for that day, in the lap swim output exactly when its activity name
\* contains "lap swim" in any letter case, in its original relative order
\* and with its start and end; the raw schedule is not modified.
C30_RawRecordsPartitioned ==
    /\ []C30_Partition
    /\ [][f_in' = f_in]_vars

\* a Saturday with a lap swim in capitals after a swim team practice, in a
\* raw schedule without the other weekdays
C30_Witness ==
    /\ f_pc = "extracted"
    /\ DOMAIN f_in.raw_schedule = {"Saturday", "Monday"}
    /\ f_in.raw_schedule["Saturday"] = <<RecB, RecAu>>
    /\ Len(f_out.lap_swim_data["Saturday"]) = 1
    /\ f_out.lap_swim_data["Saturday"][1].start = RecAu.start
    /\ f_out.all_activities_data["Saturday"] = <<ActivitySlot(RecB)>>
    /\ f_out.lap_swim_data["Friday"] = <<>>

====
